---- MODULE Spec2Model ----
(***************************************************************************)
(* Model of the protocol/connection engine of ha-extalife                  *)
(* (src/extalife/pyextalife.py): the TCP session ExtaLifeConn with its     *)
(* read task, ping task, close procedure and correlated request            *)
(* (_async_send_request), and the ExtaLifeAPI connect/login facade.        *)
(* A second part follows ExtaLifeAPI alone, with the caller's operations   *)
(* and the reconnect task, a session being seen through what its methods   *)
(* answer; a third one applies _transform_channels to the data of a        *)
(* response; a fourth one encodes a request with ExtaLifeRequest and       *)
(* decodes a frame with ExtaLifeResponse.  Three smaller parts follow the  *)
(* ping task with its clock, get_host_and_port, and the disconnect handler *)
(* of ExtaLifeAPI while it awaits the on-disconnect callback.              *)
(*                                                                         *)
(* Time is counted in tenths of a second.  Every coroutine is cut at its   *)
(* await points: one action is the code between two suspensions.           *)
(***************************************************************************)
EXTENDS Integers, Sequences, FiniteSets, TLC

(* ------------------------------ bounds --------------------------------- *)
\* ExtaLifeConn objects created in one run
MaxSess == 3
\* frames the gateway sends in one run
MaxFrames == 2
\* _async_send_request calls in one run
MaxReq == 3
\* commands the integration executes on the connected client in one run
MaxExec == 2
\* calls of ExtaLifeAPI.async_disconnect in one run
MaxDisc == 2
\* operations the caller starts on the client in one run
MaxOps == 3
\* devices in one fragment of a response
MaxDevices == 2
\* state entries of one device
MaxStates == 2

\* the time a run of the ping task is followed, in tenths of a second
MaxNow == 200
\* commands posted beside the ping task in one run
MaxPosts == 2

\* characters of an address string
MaxAddr == 6

(* ------------------------- program constants --------------------------- *)
\* ExtaLifeConnParams.__init__(..., keepalive: float = 8), in seconds
Keepalive == 8
\* timeout of _async_send_request, 3.0 s
Timeout == 30
\* tolerance of the timeout test, 0.3 s
Slack == 3
\* granularity of the clock of the model
TickLen == Timeout \div 2
\* the clocks are not counted beyond the point where every test is decided
IdleCap == Timeout + Slack + TickLen

\* ExtaLifeCmd
LOGIN == 1
FETCH_RECEIVERS == 37
CHECK_VERSION == 151
GET_EFC_CONFIG_DETAILS == 154
\* ExtaLifeConnParams.EFC01_DEFAULT_PORT
EFC01_DEFAULT_PORT == 20400
\* a port of the caller's that is not the default one
CustomPort == 20401

\* a command code that is no member of ExtaLifeCmd
UnknownCmd == 999
ExtaLifeCmd == {LOGIN, FETCH_RECEIVERS, CHECK_VERSION, GET_EFC_CONFIG_DETAILS}

\* ExtaLifeResponseStatus
SUCCESS == "success"
SEARCHING == "searching"
FAILURE == "failure"
PARTIAL == "partial"
NOTIFICATION == "notification"
BROADCAST == "broadcast"
VALIDATION == "validation"
PROGRESS == "progress"
ExtaLifeResponseStatus ==
    {SUCCESS, SEARCHING, FAILURE, PARTIAL, NOTIFICATION, BROADCAST, VALIDATION, PROGRESS}

\* ExtaLifeConn.CloseSource
CloseSource == {"connect", "conn_task", "disconnect", "ping_task", "read_task", "request"}

Sessions == 1..MaxSess
Requests == 1..MaxReq
\* the tasks that can run _async_close on a session
Threads == {"caller", "read_task", "ping_task", "request"}

(* ------------------------------ frames --------------------------------- *)
\* What the gateway can put on the wire between two ETX bytes: text that is
\* JSON or not, with a command code, a status string and, in the data, a
\* vendor error code that is a member of ExtaLifeCmdErrorCode ("known"),
\* a number that is not ("unknown"), or absent ("none").
WireFrames ==
    [json : {TRUE}, command : ExtaLifeCmd, status : ExtaLifeResponseStatus, code : {"none"}]
    \cup [json : {TRUE}, command : ExtaLifeCmd, status : {FAILURE}, code : {"known", "unknown"}]
    \cup { [json |-> FALSE, command |-> LOGIN, status |-> SUCCESS, code |-> "none"],
           [json |-> TRUE, command |-> UnknownCmd, status |-> SUCCESS, code |-> "none"],
           [json |-> TRUE, command |-> FETCH_RECEIVERS, status |-> "bogus", code |-> "none"] }

\* ExtaLifeResponse.__init__(str): json.loads, ExtaLifeCmd(...) and
\* ExtaLifeResponseStatus(...) each raise on what they do not know.
DecodeRaises(w) ==
    \/ ~w.json
    \/ w.command \notin ExtaLifeCmd
    \/ w.status \notin ExtaLifeResponseStatus

\* The decoded single-frame response; id is the arrival number of the frame.
Decode(w, id) ==
    [id |-> id, command |-> w.command, status |-> w.status, code |-> w.code]

(* ------------------------------ state ---------------------------------- *)
VARIABLES
    conn,      \* conn[s]: the fields of the s-th ExtaLifeConn object
    fds,       \* fds[s]: the OS socket created by session s: "none", "open", "closed"
    cl,        \* cl[s][t]: where thread t stands inside _async_close of session s
    req,       \* req[r]: the r-th call of _async_send_request
    nreq,      \* number of calls made
    nframes,   \* number of frames the gateway has sent
    api,       \* the ExtaLifeAPI object and the task calling it
    events,    \* the events delivered to on_event_callback, in order
    obs        \* obs[r]: what an observer of the wire saw during call r

vars == <<conn, fds, cl, req, nreq, nframes, api, events, obs>>

NoConn ==
    [made |-> FALSE, host |-> "", port |-> 0, socket |-> FALSE, writer |-> FALSE,
     username |-> "", password |-> "",
     read_ref |-> FALSE, read_task |-> "none",
     ping_ref |-> FALSE, ping_task |-> "none",
     handlers |-> <<>>, cmd_lock |-> 0, write_lock |-> <<>>]

NoClose == [pc |-> "off", src |-> "none"]

NoRes == [status |-> "none", command |-> 0, data |-> <<>>]

\* pc: "lock" waiting for the command lock, "post" waiting for the write
\* lock, "drain" writing, "wait" in wait_for, "cancelled" after wait_for ran
\* out and before the task runs again, "resolved" after set_result and
\* before the task runs again, "timed_out" and "post_failed" inside
\* _async_close(REQUEST), "returned", "raised".
\* fut: the future response_reader: "pending", "result", "cancelled".
\* idle: now - last_response; waited: the time spent in the wait_for.
NoReq ==
    [sess |-> 0, cmd |-> 0, kind |-> "none", pc |-> "none", fut |-> "none",
     responses |-> <<>>, idle |-> 0, waited |-> 0, err |-> "none", res |-> NoRes]

\* start: the frames sent before the handler was registered; acc, term: the
\* accumulation and terminal frames of the command read since, up to the
\* first terminal one; gap: the time since the last accumulation frame, or
\* since the start; slow: gap has reached the timeout once.
NoObs == [start |-> 0, acc |-> 0, term |-> 0, gap |-> 0, slow |-> FALSE]

\* None is written as an object that has the one key "kind"; a JSON object
\* is the function from its keys to its values.
None == [kind |-> "None"]

\* the tasks that call ExtaLifeAPI: the caller's, and the reconnect task
Tasks == {"caller", "reconnect"}

\* A call of ExtaLifeAPI by a task.
\* pc: "tcp" in tcp_conn.async_connect, "login" in connection.async_login,
\* "await_task" in `await self._reconnect_task`, "config" and "version" in
\* the two commands of _async_do_conn_connected, "exec" and "fetch" in
\* async_exec_command, "sleep" in asyncio.sleep; "off" between calls, and
\* for the reconnect task "done", "cancelled" and "failed" at its end.
\* sess: the session of the attempt; on: the session a command is sent on.
\* out: how the last call ended, "returned" or "raised", err the exception,
\* value what was returned, status the status of the answer to its command.
\* lost: DISCONNECTED was handled after the CONNECTED of this call;
\* auto: the attempt was started after a LOGIN FAILURE with no request of
\* the caller in between; log: the answers to the fetches of get_channels.
\* arg: the arguments of a call of _transform_channels, given: its data_list
\* before the call.
NoCall ==
    [op |-> "none", pc |-> "off", sess |-> 0, on |-> 0, host |-> "",
     autodiscover |-> FALSE, attempts |-> 0, interval |-> 0, left |-> <<>>,
     channels |-> <<>>, log |-> <<>>, status |-> "none", lost |-> FALSE,
     auto |-> FALSE, given |-> <<>>, arg |-> None,
     out |-> "none", err |-> "none", value |-> None]

NoApi ==
    [pc |-> "idle", sess |-> 0, host |-> "", autodiscover |-> FALSE, attempts |-> 0,
     req |-> 0, connection |-> 0, host_prop |-> "", port_prop |-> 0, username |-> "",
     password |-> "",
     reconnect_task |-> FALSE, result |-> "none", stage |-> "none", login |-> "none",
     ncalls |-> 0, ndisc |-> 0, call |-> [t \in Tasks |-> NoCall], nops |-> 0,
     auth_failed |-> FALSE]

Init ==
    /\ conn = [s \in Sessions |-> NoConn]
    /\ fds = [s \in Sessions |-> "none"]
    /\ cl = [s \in Sessions |-> [t \in Threads |-> NoClose]]
    /\ req = [r \in Requests |-> NoReq]
    /\ nreq = 0
    /\ nframes = 0
    /\ api = NoApi
    /\ events = <<>>
    /\ obs = [r \in Requests |-> NoObs]

(* --------------------------- small helpers ----------------------------- *)
Min(S) == CHOOSE x \in S : \A y \in S : x <= y

\* asyncio.Lock is first come, first served: the head of the queue holds it.
Acquire(q, t) == Append(q, t)
Release(q) == Tail(q)
\* a lock that every task in its queue may enter
HoldsQueued(q, t) == \E i \in 1..Len(q) : q[i] = t
Holds(q, t) == q # <<>> /\ Head(q) = t
\* a waiter that is cancelled leaves the queue
Leave(q, t) == SelectSeq(q, LAMBDA x : x # t)

RemoveFirst(q, x) ==
    IF \E i \in 1..Len(q) : q[i] = x
    THEN LET i == Min({j \in 1..Len(q) : q[j] = x})
         IN SubSeq(q, 1, i - 1) \o SubSeq(q, i + 1, Len(q))
    ELSE q

Event(s, ev, data) == [sess |-> s, ev |-> ev, data |-> data]

(* ------------------- ExtaLifeAPI: the event callbacks ------------------ *)
\* what Core._on_disconnect_callback can answer: 0 while unloading or
\* stopping, else 10
ReconnectDelays == {0, 10}

\* create_task(self._async_reconnect_task(reconnect)): the task starts with
\* asyncio.sleep(reconnect)
Sleeping(reconnect) == [NoCall EXCEPT !.op = "task", !.pc = "sleep", !.interval = reconnect]

\* ExtaLifeAPI._async_do_conn_disconnected(sender, should_reconnect)
DoConnDisconnected(a, should_reconnect, reconnect) ==
    IF a.connection # 0
    THEN IF should_reconnect /\ reconnect > 0
         THEN [a EXCEPT !.connection = 0, !.reconnect_task = TRUE,
                        !.call["reconnect"] = Sleeping(reconnect)]
         ELSE [a EXCEPT !.connection = 0]
    ELSE a

(* ----------------------- ExtaLifeConn._async_close --------------------- *)
\* Task.cancel() on the ping task, which sleeps or posts: its CancelledError
\* ends it and takes it out of the write lock.  Nothing when it is done.
CancelPing(c) ==
    IF c.ping_task \in {"sleep", "post", "drain"}
    THEN [c EXCEPT !.ping_task = "done", !.write_lock = Leave(@, "ping_task")]
    ELSE c

\* Task.cancel() on the read task, which waits in readuntil
CancelRead(c) ==
    IF c.read_task = "running" THEN [c EXCEPT !.read_task = "done"] ELSE c

\* `async with self._write_lock:` a free lock is taken without suspending
\* ("body"), else the thread queues behind the holder and the waiters
LockStage(c, t) ==
    IF c.write_lock = <<>>
    THEN [c |-> c, pc |-> "body"]
    ELSE [c |-> [c EXCEPT !.write_lock = Acquire(@, t)], pc |-> "lock_wait"]

\* _async_close without the shutdown of the read task
ShutdownReadSkipped(c, src, t) == LockStage(c, t)

\* _task_shutdown(READ_TASK, self._read_task, close_source) to its await:
\* the session fields and the place where the closing thread suspends
ShutdownRead(c, src, t) ==
    IF c.read_ref
    THEN [c |-> IF src # "read_task" THEN CancelRead(c) ELSE c, pc |-> "read_wait"]
    ELSE LockStage(c, t)

\* _task_shutdown(PING_TASK, self._ping_task, close_source) to its await
ShutdownPing(c, src, t) ==
    IF c.ping_ref
    THEN [c |-> IF src # "ping_task" THEN CancelPing(c) ELSE c, pc |-> "ping_wait"]
    ELSE ShutdownRead(c, src, t)

\* _async_close(close_source) to its first suspension:
\* `if self._socket is None: return`, else the shutdown of the tasks
CloseStart(c, src, t) ==
    IF c.socket THEN ShutdownPing(c, src, t) ELSE [c |-> c, pc |-> "off"]

\* A task that has run _async_close from its exception handler ends when
\* _async_close returns.
TaskEnds(c, t) ==
    IF t = "read_task" THEN [c EXCEPT !.read_task = "done"]
    ELSE IF t = "ping_task" THEN [c EXCEPT !.ping_task = "done"]
    ELSE c

\* a should_reconnect that is True for every close_source
ShouldReconnectAlways(src) == TRUE

\* should_reconnect = False if close_source == DISCONNECT else True
ShouldReconnect(src) == src # "disconnect"

\* the body of _async_close without `self._socket = None`
CloseBodyKeepsSocket(s, t, src, c, a) ==
    /\ cl' = [cl EXCEPT ![s][t] = NoClose]
    /\ IF ~c.socket
       THEN /\ conn' = [conn EXCEPT ![s] = TaskEnds(c, t)]
            /\ api' = a
            /\ UNCHANGED <<fds, events>>
       ELSE /\ conn' = [conn EXCEPT ![s] = TaskEnds([c EXCEPT !.writer = FALSE], t)]
            /\ fds' = [fds EXCEPT ![s] = "closed"]
            /\ events' = Append(events,
                                Event(s, "DISCONNECTED", IF ShouldReconnect(src) THEN 1 ELSE 0))
            /\ \E reconnect \in ReconnectDelays :
                   api' = DoConnDisconnected(a, ShouldReconnect(src), reconnect)

\* The body of _async_close under the write lock and the DISCONNECTED event,
\* which ExtaLifeAPI handles with the answer of the on-disconnect callback.
\* c and a are the session and the ExtaLifeAPI as the step has left them.
CloseBody(s, t, src, c, a) ==
    /\ cl' = [cl EXCEPT ![s][t] = NoClose]
    /\ IF ~c.socket
       THEN /\ conn' = [conn EXCEPT ![s] = TaskEnds(c, t)]
            /\ api' = a
            /\ UNCHANGED <<fds, events>>
       ELSE /\ conn' = [conn EXCEPT ![s] =
                           TaskEnds([c EXCEPT !.writer = FALSE, !.socket = FALSE], t)]
            /\ fds' = [fds EXCEPT ![s] = "closed"]
            /\ events' = Append(events,
                                Event(s, "DISCONNECTED", IF ShouldReconnect(src) THEN 1 ELSE 0))
            /\ \E reconnect \in ReconnectDelays :
                   api' = DoConnDisconnected(a, ShouldReconnect(src), reconnect)

\* thread t of session s runs _async_close from the stage st to its next
\* suspension or to its end
CloseRun(s, t, src, st, a) ==
    IF st.pc = "body" THEN CloseBody(s, t, src, st.c, a)
    ELSE /\ conn' = [conn EXCEPT ![s] = IF st.pc = "off" THEN TaskEnds(st.c, t) ELSE st.c]
         /\ cl' = [cl EXCEPT ![s][t] =
                      IF st.pc = "off" THEN NoClose ELSE [pc |-> st.pc, src |-> src]]
         /\ api' = a
         /\ UNCHANGED <<fds, events>>

\* thread t of session s calls _async_close(src) at the end of its step
CloseEnter(s, t, src, c, a) == CloseRun(s, t, src, CloseStart(c, src, t), a)

\* `await task` on the ping task returns; self._ping_task = None; on to the
\* read task.  The ping task, which gets here from its failed post with
\* close_source REQUEST, has cancelled itself: awaiting itself it gets the
\* CancelledError, which _task_shutdown swallows.
CloseAwaitPing(s, t) ==
    /\ cl[s][t].pc = "ping_wait"
    /\ t = "ping_task" \/ conn[s].ping_task = "done"
    /\ CloseRun(s, t, cl[s][t].src,
                ShutdownRead([conn[s] EXCEPT !.ping_ref = FALSE], cl[s][t].src, t), api)
    /\ UNCHANGED <<req, nreq, nframes, obs>>

\* `await task` on the read task returns; self._read_task = None
CloseAwaitRead(s, t) ==
    /\ cl[s][t].pc = "read_wait"
    /\ conn[s].read_task = "done"
    /\ CloseRun(s, t, cl[s][t].src,
                LockStage([conn[s] EXCEPT !.read_ref = FALSE], t), api)
    /\ UNCHANGED <<req, nreq, nframes, obs>>

\* the write lock is handed to the waiting thread
CloseFinish(s, t) ==
    /\ cl[s][t].pc = "lock_wait"
    /\ Holds(conn[s].write_lock, t)
    /\ CloseBody(s, t, cl[s][t].src, [conn[s] EXCEPT !.write_lock = Release(@)], api)
    /\ UNCHANGED <<req, nreq, nframes, obs>>

(* ---------------- ExtaLifeConn._async_send_request --------------------- *)
\* `response.status in ExtaLifeResponseStatus.NOTIFICATION` tests whether the
\* status string occurs inside the string "notification"; of the members of
\* ExtaLifeResponseStatus only "notification" does.
InNotification(status) == status = NOTIFICATION

Accumulating == {SEARCHING, PARTIAL, PROGRESS}
Terminal == {SUCCESS, FAILURE}

\* on_response with a plain `else:` in the place of the tests for NOTIFICATION
\* and for SUCCESS and FAILURE
OnResponseElse(q, response) ==
    IF q.fut # "pending" \/ response.command # q.cmd
    THEN q
    ELSE IF response.status \in Accumulating
    THEN [q EXCEPT !.idle = 0, !.responses = Append(@, response)]
    ELSE [q EXCEPT !.responses = Append(@, response), !.fut = "result",
                   !.pc = IF @ = "wait" THEN "resolved" ELSE @,
                   !.idle = IF q.pc = "wait" THEN 0 ELSE @,
                   !.waited = 0]

\* on_response without its branch for NOTIFICATION
OnResponseSkipsNotification(q, response) ==
    IF q.fut # "pending" \/ response.command # q.cmd
    THEN q
    ELSE IF response.status \in Accumulating
    THEN [q EXCEPT !.idle = 0, !.responses = Append(@, response)]
    ELSE IF response.status \in Terminal
    THEN [q EXCEPT !.responses = Append(@, response), !.fut = "result",
                   !.pc = IF @ = "wait" THEN "resolved" ELSE @,
                   !.idle = IF q.pc = "wait" THEN 0 ELSE @,
                   !.waited = 0]
    ELSE q

\* on_response(response), the handler a call registers, applied to the call
\* q.  Once the future has its result no test reads the clocks again: they
\* are put back to 0.
OnResponse(q, response) ==
    IF q.fut # "pending" \/ response.command # q.cmd
    THEN q
    ELSE IF InNotification(response.status)
    THEN [q EXCEPT !.idle = 0]
    ELSE IF response.status \in Accumulating
    THEN [q EXCEPT !.idle = 0, !.responses = Append(@, response)]
    ELSE IF response.status \in Terminal
    THEN [q EXCEPT !.responses = Append(@, response), !.fut = "result",
                   !.pc = IF @ = "wait" THEN "resolved" ELSE @,
                   !.idle = IF q.pc = "wait" THEN 0 ELSE @,
                   !.waited = 0]
    ELSE q

Registered(handlers, r) == \E i \in 1..Len(handlers) : handlers[i] = r

\* `for response_handler in self._response_handlers[:]: response_handler(response)`
Dispatch(rq, handlers, response) ==
    [r \in Requests |->
        IF Registered(handlers, r) THEN OnResponse(rq[r], response) ELSE rq[r]]

\* the call is between the registration of its handler and its return
InFlight(q) == q.pc \in {"post", "drain", "wait", "cancelled", "resolved"}

\* the observer of the wire counts the frames of the command of a call in
\* flight, up to the first terminal one
Observe(o, q, response) ==
    IF InFlight(q) /\ response.command = q.cmd /\ o.term = 0
    THEN IF response.status \in Accumulating THEN [o EXCEPT !.acc = @ + 1, !.gap = 0]
         ELSE IF response.status \in Terminal THEN [o EXCEPT !.term = 1]
         ELSE o
    ELSE o

\* a caller enters _async_send_request and queues on the command lock
NewReq(rq, r, s, cmd, kind) ==
    [rq EXCEPT ![r] = [NoReq EXCEPT !.sess = s, !.cmd = cmd, !.kind = kind, !.pc = "lock"]]

\* The call is bound to leave with an exception: nothing reads its clocks
\* and its list of fragments again; a future left pending is marked "orphan".
Doomed(q, pc) ==
    [q EXCEPT !.pc = pc, !.idle = 0, !.waited = 0, !.responses = <<>>,
              !.fut = IF @ = "pending" THEN "orphan" ELSE @]

\* The call leaves with an exception: the command lock is released, the
\* handler stays in the list.
Raise(q, err) == [Doomed(q, "raised") EXCEPT !.err = err]

Waiting(s) == {r \in Requests : req[r].sess = s /\ req[r].pc = "lock"}

\* _async_send_request without `async with self._cmd_exec_lock:`
ReqAcquireUnlocked(r) ==
    /\ req[r].pc = "lock"
    /\ LET s == req[r].sess
       IN /\ r = Min(Waiting(s))
          /\ IF ~conn[s].socket
             THEN /\ req' = [req EXCEPT ![r] = Raise([@ EXCEPT !.fut = "pending"], "ConnError")]
                  /\ conn' = [conn EXCEPT ![s].handlers = Append(@, r)]
                  /\ UNCHANGED obs
             ELSE /\ req' = [req EXCEPT ![r].fut = "pending",
                                        ![r].pc = IF conn[s].write_lock = <<>> /\ conn[s].writer
                                                  THEN "drain" ELSE "post"]
                  /\ conn' = [conn EXCEPT ![s].handlers = Append(@, r),
                                          ![s].cmd_lock = r,
                                          ![s].write_lock = Acquire(@, "request")]
                  /\ obs' = [obs EXCEPT ![r] = [NoObs EXCEPT !.start = nframes]]
    /\ UNCHANGED <<fds, cl, nreq, nframes, api, events>>

\* `async with self._cmd_exec_lock:` entered, the future created, the handler
\* registered, and _async_post_data to its first suspension: in drain when
\* the write lock is free, else in the queue of the lock
ReqAcquire(r) ==
    /\ req[r].pc = "lock"
    /\ LET s == req[r].sess
       IN /\ conn[s].cmd_lock = 0
          /\ r = Min(Waiting(s))
          /\ IF ~conn[s].socket
             THEN /\ req' = [req EXCEPT ![r] = Raise([@ EXCEPT !.fut = "pending"], "ConnError")]
                  /\ conn' = [conn EXCEPT ![s].handlers = Append(@, r)]
                  /\ UNCHANGED obs
             ELSE /\ req' = [req EXCEPT ![r].fut = "pending",
                                        ![r].pc = IF conn[s].write_lock = <<>> /\ conn[s].writer
                                                  THEN "drain" ELSE "post"]
                  /\ conn' = [conn EXCEPT ![s].handlers = Append(@, r),
                                          ![s].cmd_lock = r,
                                          ![s].write_lock = Acquire(@, "request")]
                  /\ obs' = [obs EXCEPT ![r] = [NoObs EXCEPT !.start = nframes]]
    /\ UNCHANGED <<fds, cl, nreq, nframes, api, events>>

\* the write lock is held: self._tcp_writer.write(data)
ReqWrite(r) ==
    /\ req[r].pc = "post"
    /\ LET s == req[r].sess
       IN /\ Holds(conn[s].write_lock, "request")
          /\ IF conn[s].writer
             THEN /\ req' = [req EXCEPT ![r].pc = "drain"]
                  /\ UNCHANGED <<conn, obs>>
             ELSE /\ req' = [req EXCEPT ![r] = Raise(@, "AttributeError")]
                  /\ conn' = [conn EXCEPT ![s].write_lock = Release(@), ![s].cmd_lock = 0]
                  /\ obs' = [obs EXCEPT ![r] = NoObs]
    /\ UNCHANGED <<fds, cl, nreq, nframes, api, events>>

\* `await self._tcp_writer.drain()` returns, and the call waits for its
\* future; or it raises OSError: _async_close(REQUEST)
ReqDrain(r, ok) ==
    /\ req[r].pc = "drain"
    /\ LET s == req[r].sess
       IN IF ok
             THEN /\ req' = [req EXCEPT ![r].waited = 0,
                                        ![r].idle = IF req[r].fut = "result" THEN 0 ELSE @,
                                        ![r].pc = IF req[r].fut = "result" THEN "resolved" ELSE "wait"]
                  /\ conn' = [conn EXCEPT ![s].write_lock = Release(@)]
                  /\ UNCHANGED <<cl, fds, events, api, obs>>
             ELSE /\ req' = [req EXCEPT ![r] = Doomed(@, "post_failed")]
                  /\ obs' = [obs EXCEPT ![r] = NoObs]
                  /\ CloseEnter(s, "request", "request",
                                [conn[s] EXCEPT !.write_lock = Release(@)], api)
    /\ UNCHANGED <<nreq, nframes>>

\* asyncio.wait_for runs out: it cancels the future it waits for
ReqTimeout(r) ==
    /\ req[r].pc = "wait"
    /\ req[r].waited >= Timeout
    /\ req' = [req EXCEPT ![r].pc = "cancelled", ![r].fut = "cancelled", ![r].waited = 0]
    /\ UNCHANGED <<conn, fds, cl, nreq, nframes, api, events, obs>>

\* the timeout test on the time spent in the wait_for that has just run out
TimedOutSinceRearm(q) == q.waited - Slack > Timeout

\* a timeout that does not slide: the first wait_for that runs out closes
TimedOutAtOnce(q) == TRUE

\* `if (now_timeout - last_response) - 0.3 > timeout`
TimedOut(q) == q.idle - Slack > Timeout

\* `except AsyncTimeoutError:` close and raise, or wait again on a new future
ReqTimeoutHandle(r) ==
    /\ req[r].pc = "cancelled"
    /\ IF TimedOut(req[r])
       THEN /\ req' = [req EXCEPT ![r] = Doomed(@, "timed_out")]
            /\ obs' = [obs EXCEPT ![r] = [NoObs EXCEPT !.slow = obs[r].slow]]
            /\ CloseEnter(req[r].sess, "request", "request", conn[req[r].sess], api)
       ELSE /\ req' = [req EXCEPT ![r].pc = "wait", ![r].fut = "pending", ![r].waited = 0]
            /\ UNCHANGED <<conn, cl, fds, events, api, obs>>
    /\ UNCHANGED <<nreq, nframes>>

\* _async_close(REQUEST) has returned: raise ExtaLifeConnError
ReqClosed(r) ==
    /\ req[r].pc \in {"timed_out", "post_failed"}
    /\ cl[req[r].sess]["request"].pc = "off"
    /\ req' = [req EXCEPT ![r] = Raise(@, "ConnError")]
    /\ conn' = [conn EXCEPT ![req[r].sess].cmd_lock = 0]
    /\ obs' = [obs EXCEPT ![r] = NoObs]
    /\ UNCHANGED <<fds, cl, nreq, nframes, api, events>>

(* ------------------ ExtaLifeConn.async_exec_command -------------------- *)
\* ExtaLifeResponse(responses, request): the status of the last frame, the
\* data of all frames in order
Merged(responses) ==
    [status |-> responses[Len(responses)].status,
     command |-> responses[Len(responses)].command,
     data |-> [i \in 1..Len(responses) |-> responses[i].code]]

\* The future has its result: leave the loop, unregister, return responses,
\* which async_exec_command merges.  The merged response is kept for the
\* callers whose next step the model follows.
ReqReturn(r) ==
    /\ req[r].pc = "resolved"
    /\ req' = [req EXCEPT ![r].pc = "returned", ![r].idle = 0, ![r].waited = 0,
                          ![r].responses = <<>>,
                          ![r].res = IF req[r].kind = "user" THEN NoRes
                                     ELSE Merged(req[r].responses)]
    /\ conn' = [conn EXCEPT ![req[r].sess].handlers = RemoveFirst(@, r),
                            ![req[r].sess].cmd_lock = 0]
    /\ obs' = [obs EXCEPT ![r] = NoObs]
    /\ UNCHANGED <<fds, cl, nreq, nframes, api, events>>

(* ------------------- ExtaLifeConn._async_read_task --------------------- *)
\* `except Exception`: self._read_task = None, then _async_close(READ_TASK)
ReadFails(s) ==
    CloseEnter(s, "read_task", "read_task",
               [conn[s] EXCEPT !.read_ref = FALSE, !.read_task = "closing"], api)

\* _async_do_event(NOTIFICATION, response) for every frame
NotifyAll(ev, s, response) == Append(ev, Event(s, "NOTIFICATION", response.id))

\* `if response.status == ExtaLifeResponseStatus.NOTIFICATION:
\*      await self._async_do_event(ExtaLifeEvent.NOTIFICATION, response)`
Notify(ev, s, response) ==
    IF response.status = NOTIFICATION
    THEN Append(ev, Event(s, "NOTIFICATION", response.id))
    ELSE ev

\* one frame is read up to its ETX, decoded and dispatched
ReadFrame(s, w) ==
    /\ conn[s].read_task = "running"
    /\ nframes < MaxFrames
    /\ nframes' = nframes + 1
    /\ IF DecodeRaises(w)
       THEN /\ ReadFails(s)
            /\ UNCHANGED <<req, obs>>
       ELSE LET response == Decode(w, nframes + 1)
            IN /\ events' = Notify(events, s, response)
               /\ req' = Dispatch(req, conn[s].handlers, response)
               /\ obs' = [r \in Requests |->
                             IF Registered(conn[s].handlers, r)
                             THEN Observe(obs[r], req[r], response) ELSE obs[r]]
               /\ UNCHANGED <<conn, cl, fds, api>>
    /\ UNCHANGED nreq

\* readuntil raises: the peer closed or reset the connection
ReadError(s) ==
    /\ conn[s].read_task = "running"
    /\ ReadFails(s)
    /\ UNCHANGED <<req, nreq, nframes, obs>>

(* ------------------- ExtaLifeConn._async_ping_task --------------------- *)
\* the keepalive is due: async_post_command(NOOP) takes the write lock and
\* writes, or queues for the lock
PingPost(s) ==
    /\ conn[s].ping_task = "sleep"
    /\ conn' = [conn EXCEPT ![s].ping_task = IF conn[s].write_lock = <<>> THEN "drain" ELSE "post",
                            ![s].write_lock = Acquire(@, "ping_task")]
    /\ UNCHANGED <<fds, cl, req, nreq, nframes, api, events, obs>>

\* the write lock is held: the NOOP frame is written
PingWrite(s) ==
    /\ conn[s].ping_task = "post"
    /\ Holds(conn[s].write_lock, "ping_task")
    /\ conn' = [conn EXCEPT ![s].ping_task = "drain"]
    /\ UNCHANGED <<fds, cl, req, nreq, nframes, api, events, obs>>

\* drain returns, or raises OSError: _async_close(REQUEST) inside the ping
\* task, whose ExtaLifeConnError then ends the task
PingDrain(s, ok) ==
    /\ conn[s].ping_task = "drain"
    /\ IF ok
       THEN /\ conn' = [conn EXCEPT ![s].ping_task = "sleep", ![s].write_lock = Release(@)]
            /\ UNCHANGED <<cl, fds, events, api>>
       ELSE CloseEnter(s, "ping_task", "request",
                       [conn[s] EXCEPT !.ping_task = "closing", !.write_lock = Release(@)], api)
    /\ UNCHANGED <<req, nreq, nframes, obs>>

(* ------------------ ExtaLifeConn.async_login ---------------------------- *)
\* ExtaLifeResponse.error_code: ExtaLifeCmdErrorCode(int(self.data[0]["code"]))
\* raises when the first fragment carries no code or one the enum lacks
ErrorCodeRaises(m) == m.status = FAILURE /\ m.data[1] # "known"

\* ExtaLifeResponse.error_code of a merged response: the code of the first
\* fragment when the status is FAILURE, and the exception when that fragment
\* has none that the enum knows
ErrorCode(m) ==
    IF m.status = FAILURE /\ Len(m.data) > 0
    THEN IF m.data[1] = "known"
         THEN [raised |-> FALSE, code |-> m.data[1]]
         ELSE [raised |-> TRUE, code |-> "none"]
    ELSE [raised |-> FALSE, code |-> "SUCCESS"]

\* _check_success(response): what async_login gets for the merged response.
\* The error_code is formatted into the log line before ExtaLifeCmdError
\* is raised.
CheckSuccess(m) ==
    IF m.status = FAILURE
    THEN IF ErrorCodeRaises(m) THEN "Error" ELSE "CmdError"
    ELSE "ok"

(* ----------------------- ExtaLifeAPI.async_connect --------------------- *)
Unmade == {s \in Sessions : ~conn[s].made}

\* _async_connect_tcp(_host): a new ExtaLifeConn, whose async_connect
\* creates the socket and suspends in the discovery or in sock_connect
Attempt(a, s, h) ==
    [a EXCEPT !.pc = IF h = "" THEN "discover" ELSE "tcp", !.sess = s,
              !.attempts = @ + 1, !.result = "none", !.stage = "connect",
              !.login = "none"]

\* ExtaLifeConnParams.__init__: a port outside 1..65535 is the default port
ParamsPort(port) == IF port > 0 /\ port <= 65535 THEN port ELSE EFC01_DEFAULT_PORT

\* the port the caller passes with the host: that of its address, 0 with none
PortOf(h) == IF h = "addr" THEN CustomPort ELSE 0

\* ExtaLifeConn(ExtaLifeConnParams(_host, _port)) and the socket that its
\* async_connect creates
OpenedAt(c, h, port) ==
    [c EXCEPT !.made = TRUE, !.host = h, !.port = ParamsPort(port), !.socket = TRUE]

Opened(c, h) == OpenedAt(c, h, PortOf(h))

\* async_connect returns or raises
Finish(a, result) == [a EXCEPT !.pc = "idle", !.result = result, !.req = 0]

\* the retry without the test of host
RetriesAnyHost(a) == a.autodiscover /\ a.attempts = 1

\* `if host and autodiscover:` in the handler of the first attempt's error
Retries(a) == a.host # "" /\ a.autodiscover /\ a.attempts = 1

\* tcp_conn.async_disconnect() in the handler of _async_connect_tcp has
\* returned and the ExtaLifeConnError of the attempt is raised again: retry
\* by discovery, or the error leaves async_connect
ApiAttemptClosed ==
    /\ api.pc = "attempt_close"
    /\ cl[api.sess]["caller"].pc = "off"
    /\ IF Retries(api)
       THEN /\ Unmade # {}
            /\ api' = Attempt(api, Min(Unmade), "")
            /\ conn' = [conn EXCEPT ![Min(Unmade)] = Opened(@, "")]
            /\ fds' = [fds EXCEPT ![Min(Unmade)] = "open"]
       ELSE /\ api' = Finish(api, "ConnError")
            /\ UNCHANGED <<conn, fds>>
    /\ UNCHANGED <<cl, req, nreq, nframes, events, obs>>

\* the caller calls async_connect(username, password, host, autodiscover),
\* once
ApiConnect(h, ad) ==
    /\ api.pc = "idle"
    /\ api.connection = 0
    /\ api.ncalls = 0
    /\ Unmade # {}
    /\ LET s == Min(Unmade)
       IN /\ api' = Attempt([api EXCEPT !.host = h, !.autodiscover = ad, !.attempts = 0,
                                        !.ncalls = @ + 1], s, h)
          /\ conn' = [conn EXCEPT ![s] = Opened(@, h)]
          /\ fds' = [fds EXCEPT ![s] = "open"]
    /\ UNCHANGED <<cl, req, nreq, nframes, events, obs>>

\* What becomes of a socket object whose last reference is dropped without
\* close(): the runtime may finalize it at once or later.
Dropped == {"open", "closed"}

\* discover_controller returns an address or "".  On "" the reference to the
\* socket is dropped (`self._socket = None`) and ExtaLifeConnError raised, which
\* _async_connect_tcp handles with tcp_conn.async_disconnect(): _async_close
\* returns at `if self._socket is None`.
ApiDiscover(found) ==
    /\ api.pc = "discover"
    /\ IF found
       THEN /\ conn' = [conn EXCEPT ![api.sess].host = "found",
                                    ![api.sess].port = EFC01_DEFAULT_PORT]
            /\ api' = [api EXCEPT !.pc = "tcp"]
            /\ UNCHANGED <<fds, cl, events>>
       ELSE /\ conn' = [conn EXCEPT ![api.sess].socket = FALSE]
            /\ \E d \in Dropped : fds' = [fds EXCEPT ![api.sess] = d]
            /\ api' = [api EXCEPT !.pc = "attempt_close"]
            /\ UNCHANGED <<cl, events>>
    /\ UNCHANGED <<req, nreq, nframes, obs>>

\* sock_connect succeeds: the tasks start and async_login sends LOGIN;
\* or it times out or is refused: _async_close(CONNECT)
ApiTcp(outcome) ==
    /\ api.pc = "tcp"
    /\ IF outcome = "ok"
       THEN /\ nreq < MaxReq
            /\ conn' = [conn EXCEPT ![api.sess].writer = TRUE,
                                    ![api.sess].read_ref = TRUE,
                                    ![api.sess].read_task = "running",
                                    ![api.sess].ping_ref = TRUE,
                                    ![api.sess].ping_task = "sleep"]
            /\ nreq' = nreq + 1
            /\ req' = NewReq(req, nreq + 1, api.sess, LOGIN, "login")
            /\ api' = [api EXCEPT !.pc = "login_wait", !.req = nreq + 1, !.stage = "login"]
            /\ UNCHANGED <<cl, fds, events>>
       ELSE /\ CloseEnter(api.sess, "caller", "connect", conn[api.sess],
                          [api EXCEPT !.pc = "tcp_close"])
            /\ UNCHANGED <<req, nreq>>
    /\ UNCHANGED <<nframes, obs>>

\* _async_close(CONNECT) has returned: ExtaLifeConnError is raised, which
\* _async_connect_tcp handles with tcp_conn.async_disconnect()
ApiTcpClosed ==
    /\ api.pc = "tcp_close"
    /\ cl[api.sess]["caller"].pc = "off"
    /\ CloseEnter(api.sess, "caller", "disconnect", conn[api.sess],
                  [api EXCEPT !.pc = "attempt_close"])
    /\ UNCHANGED <<req, nreq, nframes, obs>>

\* async_login after _check_success: the session keeps the credentials
LoggedIn(c) == [c EXCEPT !.username = "user", !.password = "secret"]

\* ExtaLifeAPI._async_do_conn_connected(sender) with the parameters that are
\* not taken from the sender
DoConnConnectedStale(a, s, c) == [a EXCEPT !.reconnect_task = FALSE, !.connection = s]

\* ExtaLifeAPI._async_do_conn_connected(sender), to its first command; c is
\* the sender's state
DoConnConnected(a, s, c) ==
    [a EXCEPT !.reconnect_task = FALSE, !.connection = s,
              !.host_prop = c.host, !.port_prop = c.port,
              !.username = c.username, !.password = c.password]

\* the caller has taken the outcome of the call
Taken(rq, r) == [rq EXCEPT ![r].res = NoRes]

\* The LOGIN exchange has ended.  ExtaLifeConnError and ExtaLifeCmdError are
\* ExtaLifeError: connection.async_disconnect(), then raise.  Any other
\* exception leaves async_connect as it is.
ApiLoginDone ==
    /\ api.pc = "login_wait"
    /\ LET q == req[api.req]
           s == api.sess
       IN \/ /\ q.pc = "raised"
             /\ IF q.err = "ConnError"
                THEN CloseEnter(s, "caller", "disconnect", conn[s],
                                [api EXCEPT !.pc = "fail_close", !.result = "ConnError"])
                ELSE /\ api' = Finish(api, q.err)
                     /\ UNCHANGED <<conn, cl, fds, events>>
             /\ UNCHANGED <<req, nreq>>
          \/ /\ q.pc = "returned"
             /\ CheckSuccess(q.res) = "Error"
             /\ api' = Finish([api EXCEPT !.login = q.res.status], "Error")
             /\ req' = Taken(req, api.req)
             /\ UNCHANGED <<conn, cl, fds, events, nreq>>
          \/ /\ q.pc = "returned"
             /\ CheckSuccess(q.res) = "CmdError"
             /\ CloseEnter(s, "caller", "disconnect", conn[s],
                           [api EXCEPT !.pc = "fail_close", !.result = "CmdError",
                                       !.login = q.res.status])
             /\ req' = Taken(req, api.req)
             /\ UNCHANGED nreq
          \/ /\ q.pc = "returned"
             /\ CheckSuccess(q.res) = "ok"
             /\ nreq < MaxReq
             /\ conn' = [conn EXCEPT ![s] = LoggedIn(@)]
             /\ events' = Append(events, Event(s, "CONNECTED", 0))
             /\ nreq' = nreq + 1
             /\ req' = NewReq(Taken(req, api.req), nreq + 1, s, GET_EFC_CONFIG_DETAILS, "config")
             /\ api' = [DoConnConnected(api, s, LoggedIn(conn[s]))
                           EXCEPT !.pc = "cfg_wait", !.req = nreq + 1,
                                                       !.stage = "connected",
                                                       !.login = q.res.status]
             /\ UNCHANGED <<cl, fds>>
    /\ UNCHANGED <<nframes, obs>>

\* connection.async_disconnect() has returned: the login error is raised
ApiFailClosed ==
    /\ api.pc = "fail_close"
    /\ cl[api.sess]["caller"].pc = "off"
    /\ api' = Finish(api, api.result)
    /\ UNCHANGED <<conn, fds, cl, req, nreq, nframes, events, obs>>

\* an error that is no ExtaLifeError passes through ExtaLifeAPI.async_exec_command
Escapes(q) == q.pc = "raised" /\ q.err # "ConnError"

\* async_get_config_details has its answer or None; async_check_version
\* sends CHECK_VERSION when the client is still connected
ApiCfgDone ==
    /\ api.pc = "cfg_wait"
    /\ req[api.req].pc \in {"returned", "raised"}
    /\ IF Escapes(req[api.req])
       THEN /\ api' = Finish(api, req[api.req].err)
            /\ req' = Taken(req, api.req)
            /\ UNCHANGED nreq
       ELSE IF api.connection = 0
       THEN /\ api' = Finish(api, "ok")
            /\ req' = Taken(req, api.req)
            /\ UNCHANGED nreq
       ELSE /\ nreq < MaxReq
            /\ nreq' = nreq + 1
            /\ req' = NewReq(Taken(req, api.req), nreq + 1, api.connection,
                             CHECK_VERSION, "version")
            /\ api' = [api EXCEPT !.pc = "ver_wait", !.req = nreq + 1]
    /\ UNCHANGED <<conn, fds, cl, nframes, events, obs>>

\* async_check_version has its answer or None; the on-connect callback runs
\* and async_connect returns response[0]
ApiVerDone ==
    /\ api.pc = "ver_wait"
    /\ req[api.req].pc \in {"returned", "raised"}
    /\ api' = Finish(api, IF Escapes(req[api.req]) THEN req[api.req].err ELSE "ok")
    /\ req' = Taken(req, api.req)
    /\ UNCHANGED <<conn, fds, cl, nreq, nframes, events, obs>>

(* ---------------------- ExtaLifeAPI.async_disconnect ------------------- *)
\* `if self._connection: await self._connection.async_disconnect()`
ApiDisconnect ==
    /\ api.pc = "idle"
    /\ api.ndisc < MaxDisc
    /\ IF api.connection # 0
       THEN CloseEnter(api.connection, "caller", "disconnect", conn[api.connection],
                       [api EXCEPT !.pc = "disc_close", !.ndisc = @ + 1,
                                   !.sess = api.connection])
       ELSE /\ api' = [api EXCEPT !.ndisc = @ + 1]
            /\ UNCHANGED <<conn, cl, fds, events>>
    /\ UNCHANGED <<req, nreq, nframes, obs>>

\* The holder of a session calls ExtaLifeConn.async_disconnect(), which is
\* _async_close(DISCONNECT)
ConnDisconnect(s) ==
    /\ api.pc = "idle"
    /\ api.ndisc < MaxDisc
    /\ conn[s].made
    /\ CloseEnter(s, "caller", "disconnect", conn[s],
                  [api EXCEPT !.pc = "disc_close", !.ndisc = @ + 1, !.sess = s])
    /\ UNCHANGED <<req, nreq, nframes, obs>>

\* async_disconnect() has returned
ApiDisconnected ==
    /\ api.pc = "disc_close"
    /\ cl[api.sess]["caller"].pc = "off"
    /\ api' = [api EXCEPT !.pc = "idle"]
    /\ UNCHANGED <<conn, fds, cl, req, nreq, nframes, events, obs>>

(* --------------------- ExtaLifeAPI.async_exec_command ------------------ *)
\* a task of the integration executes a command on the connected client
ApiExec(cmd) ==
    /\ api.connection # 0
    /\ nreq < MaxReq
    /\ Cardinality({r \in Requests : req[r].kind = "user"}) < MaxExec
    /\ nreq' = nreq + 1
    /\ req' = NewReq(req, nreq + 1, api.connection, cmd, "user")
    /\ UNCHANGED <<conn, fds, cl, nframes, api, events, obs>>

(* ------------------ ExtaLifeAPI._transform_channels -------------------- *)
\* {**a, **b} with the operands exchanged
MergeLeft(a, b) == [k \in DOMAIN a \cup DOMAIN b |-> IF k \in DOMAIN a THEN a[k] ELSE b[k]]

\* {**a, **b}: on a key of both, the value of b
Merge(a, b) == [k \in DOMAIN a \cup DOMAIN b |-> IF k \in DOMAIN b THEN b[k] ELSE a[k]]

\* d.pop(k)
Pop(d, k) == [j \in DOMAIN d \ {k} |-> d[j]]

\* d[k] = v
Put(d, k, v) == [j \in DOMAIN d \cup {k} |-> IF j = k THEN v ELSE d[j]]

Digits == <<"0", "1", "2", "3", "4", "5", "6", "7", "8", "9">>

\* str(n) of an integer n >= 0
RECURSIVE Str(_)
Str(n) == IF n < 10 THEN Digits[n + 1] ELSE Str(n \div 10) \o Digits[(n % 10) + 1]

\* `dev = device.copy()`: dev is a new object with the keys and values of
\* device; what is done to dev is not done to device
Copy(device) == [obj |-> device, alias |-> FALSE]

\* the type of an Exta Free device is moved by 300
ExtaFreeOffset == 300

\* `if dev.get("exta_free_device") is True`
IsExtaFree(d) == "exta_free_device" \in DOMAIN d /\ d.exta_free_device = TRUE

\* def_channel = "#" if dummy_channel else None, as str() prints it
DefChannel(dummy_channel) == IF dummy_channel THEN "#" ELSE "None"

\* str(device["id"]) + str(state.get("channel", def_channel))
ChannelIdJoined(device, state, dummy_channel) ==
    Str(device.id) \o (IF "channel" \in DOMAIN state THEN Str(state.channel)
                       ELSE DefChannel(dummy_channel))

\* str(device["id"]) + "-" + str(state.get("channel", def_channel))
ChannelId(device, state, dummy_channel) ==
    Str(device.id) \o "-" \o (IF "channel" \in DOMAIN state THEN Str(state.channel)
                              ELSE DefChannel(dummy_channel))

\* int(dev["state"][0]["exta_free_type"])
ExtaFreeTypeUnmoved(device) == device.state[1].exta_free_type

\* int(dev["state"][0]["exta_free_type"]) + 300
ExtaFreeType(device) == device.state[1].exta_free_type + ExtaFreeOffset

\* One turn of `for device in data["devices"]`: the records of the device,
\* the device as the turn leaves it, and whether the turn raises (a key that
\* is read is missing, or an Exta Free device has no state).
TransformDevice(device, dummy_channel) ==
    LET dev0 == Copy(device)
        free == IsExtaFree(dev0.obj)
        bad == \/ "state" \notin DOMAIN device
               \/ "id" \notin DOMAIN device
               \/ free /\ (device.state = <<>> \/ "exta_free_type" \notin DOMAIN device.state[1])
        dev1 == IF free THEN [dev0 EXCEPT !.obj = Put(@, "type", ExtaFreeType(device))]
                ELSE dev0
        dev == [dev1 EXCEPT !.obj = Pop(@, "state")]
        left == IF dev.alias THEN dev.obj ELSE device
    IN IF bad \/ "state" \notin DOMAIN left
       THEN [raised |-> TRUE, channels |-> <<>>,
             device |-> IF bad THEN device ELSE left]
       ELSE [raised |-> FALSE,
             channels |-> [i \in 1..Len(left.state) |->
                             [id |-> ChannelId(left, left.state[i], dummy_channel),
                              data |-> Merge(left.state[i], dev.obj)]],
             device |-> left]

\* `for device in data["devices"]` over the devices from the i-th on
RECURSIVE TransformDevices(_, _, _)
TransformDevices(devices, i, dummy_channel) ==
    IF i > Len(devices)
    THEN [raised |-> FALSE, channels |-> <<>>, devices |-> devices]
    ELSE LET one == TransformDevice(devices[i], dummy_channel)
             now == [devices EXCEPT ![i] = one.device]
         IN IF one.raised
            THEN [raised |-> TRUE, channels |-> <<>>, devices |-> now]
            ELSE LET more == TransformDevices(now, i + 1, dummy_channel)
                 IN [raised |-> more.raised,
                     channels |-> one.channels \o more.channels,
                     devices |-> more.devices]

\* _transform_channels(data_list, dummy_channel) over the fragments from the
\* i-th on: the channel records, the list as the call leaves it, and whether
\* the call raises
RECURSIVE TransformChannels(_, _, _)
TransformChannels(data_list, i, dummy_channel) ==
    IF i > Len(data_list)
    THEN [raised |-> FALSE, channels |-> <<>>, data_list |-> data_list]
    ELSE IF "devices" \notin DOMAIN data_list[i]
    THEN [raised |-> TRUE, channels |-> <<>>, data_list |-> data_list]
    ELSE LET one == TransformDevices(data_list[i].devices, 1, dummy_channel)
             now == [data_list EXCEPT ![i] = Put(@, "devices", one.devices)]
         IN IF one.raised
            THEN [raised |-> TRUE, channels |-> <<>>, data_list |-> now]
            ELSE LET more == TransformChannels(now, i + 1, dummy_channel)
                 IN [raised |-> more.raised,
                     channels |-> one.channels \o more.channels,
                     data_list |-> more.data_list]

(* ------------------ the inputs of _transform_channels ------------------ *)
\* the object d with the keys K only
Restrict(d, K) == [k \in K |-> d[k]]

\* the sequences over S of at most n elements
SeqsUpTo(S, n) == UNION {[1..m -> S] : m \in 0..n}

\* State entries: with a channel number or without, with a key that the
\* device has too ("icon") or without, of an Exta Free device or not, and
\* one of another Exta Free type that has the Exta Free mark itself.
StateEntries ==
    { Restrict([channel |-> ch, icon |-> 2, power |-> 0, exta_free_type |-> 26], K) :
        ch \in {1, 11},
        K \in { {"power"}, {"channel", "icon", "power"},
                {"channel", "exta_free_type", "power"} } }
    \cup { [channel |-> 1, exta_free_type |-> 27, exta_free_device |-> TRUE] }

\* Devices as the controller lists them: an id, a type, a state list, and
\* for an Exta Free device the type of its first state entry.
Devices ==
    { d \in { Restrict([id |-> i, type |-> 11, icon |-> 1, exta_free_device |-> TRUE,
                        state |-> st], K) :
                i \in {1, 11},
                st \in SeqsUpTo(StateEntries, MaxStates),
                K \in { {"id", "type", "state"}, {"id", "type", "icon", "state"},
                        {"id", "type", "exta_free_device", "state"} } } :
        IsExtaFree(d) => d.state # <<>> /\ "exta_free_type" \in DOMAIN d.state[1] }

\* the data of a response: the devices in one fragment, or in two
DataLists ==
    { <<[devices |-> ds]>> : ds \in SeqsUpTo(Devices, MaxDevices) }
    \cup { <<[devices |-> <<d>>], [devices |-> <<e>>]>> : d \in Devices, e \in Devices }

(* ------------------ the frames: ExtaLifeRequest, ExtaLifeResponse ------ *)
\* A JSON value is written with its kind: a number, a string, null (None),
\* or an object, which is the sequence of its keys with their values in the
\* order a dict keeps them.
Num(n) == [k |-> "num", n |-> n]
StrV(s) == [k |-> "str", s |-> s]
Null == [k |-> "null"]
Obj(pairs) == [k |-> "obj", o |-> pairs]
Pair(key, val) == [key |-> key, val |-> val]

\* The text of a frame is the sequence of its tokens: the punctuation of
\* JSON, the space, a string, a number with its digits, null, and the byte ETX.
Tok(t, v) == [t |-> t, v |-> v]
Sp == Tok("space", "")
ETX == Tok("ETX", "")

\* the largest number a frame of the model carries
MaxNum == 500

\* int(text) of the digits of a number
IntOf(v) == CHOOSE n \in 0..MaxNum : Str(n) = v

\* json.dumps(value) with the default separators ", " and ": "
RECURSIVE Dumps(_)
RECURSIVE DumpsPairs(_)
DumpsPairs(pairs) ==
    IF pairs = <<>> THEN <<>>
    ELSE <<Tok("str", Head(pairs).key), Tok(":", ""), Sp>> \o Dumps(Head(pairs).val)
         \o (IF Tail(pairs) = <<>> THEN <<>> ELSE <<Tok(",", ""), Sp>> \o DumpsPairs(Tail(pairs)))
Dumps(value) ==
    CASE value.k = "num" -> <<Tok("num", Str(value.n))>>
      [] value.k = "str" -> <<Tok("str", value.s)>>
      [] value.k = "null" -> <<Tok("null", "")>>
      [] value.k = "obj" -> <<Tok("{", "")>> \o DumpsPairs(value.o) \o <<Tok("}", "")>>

\* the place of the first token from the i-th on that is no space
RECURSIVE Skip(_, _)
Skip(toks, i) == IF i <= Len(toks) /\ toks[i].t = "space" THEN Skip(toks, i + 1) ELSE i

NoParse == [ok |-> FALSE, val |-> Null, next |-> 0]

\* the JSON decoder from the i-th token on: the value and the place after
\* it, or no value
RECURSIVE ParseValue(_, _)
RECURSIVE ParseMembers(_, _, _)
ParseMembers(toks, i, acc) ==
    LET j == Skip(toks, i)
        c == Skip(toks, j + 1)
        v == ParseValue(toks, c + 1)
        e == Skip(toks, v.next)
    IN IF j > Len(toks) \/ toks[j].t # "str" \/ c > Len(toks) \/ toks[c].t # ":" THEN NoParse
       ELSE IF ~v.ok \/ e > Len(toks) THEN NoParse
       ELSE IF toks[e].t = "}"
       THEN [ok |-> TRUE, val |-> Obj(Append(acc, Pair(toks[j].v, v.val))), next |-> e + 1]
       ELSE IF toks[e].t = ","
       THEN ParseMembers(toks, e + 1, Append(acc, Pair(toks[j].v, v.val)))
       ELSE NoParse
ParseValue(toks, i) ==
    LET j == Skip(toks, i)
    IN IF j > Len(toks) THEN NoParse
       ELSE CASE toks[j].t = "num" -> [ok |-> TRUE, val |-> Num(IntOf(toks[j].v)), next |-> j + 1]
              [] toks[j].t = "str" -> [ok |-> TRUE, val |-> StrV(toks[j].v), next |-> j + 1]
              [] toks[j].t = "null" -> [ok |-> TRUE, val |-> Null, next |-> j + 1]
              [] toks[j].t = "{" ->
                     IF Skip(toks, j + 1) <= Len(toks) /\ toks[Skip(toks, j + 1)].t = "}"
                     THEN [ok |-> TRUE, val |-> Obj(<<>>), next |-> Skip(toks, j + 1) + 1]
                     ELSE ParseMembers(toks, j + 1, <<>>)
              [] OTHER -> NoParse

\* json.loads(text): the value, or JSONDecodeError when the text is no value
\* or has more after the value
Loads(toks) ==
    LET r == ParseValue(toks, 1)
    IN IF r.ok /\ Skip(toks, r.next) > Len(toks)
       THEN [raised |-> FALSE, val |-> r.val]
       ELSE [raised |-> TRUE, val |-> Null]

\* d.get(key) of an object: the value of the key, None without it
Get(d, key) ==
    IF \E i \in 1..Len(d.o) : d.o[i].key = key
    THEN d.o[CHOOSE i \in 1..Len(d.o) : d.o[i].key = key].val
    ELSE Null

\* d.pop(key)
PopKey(d, key) == Obj(SelectSeq(d.o, LAMBDA p : p.key # key))

NOOP == 0
DOWNLOAD_BACKUP == 500
\* the members of ExtaLifeCmd that the frames of the model carry
FrameCmds == ExtaLifeCmd \cup {NOOP, DOWNLOAD_BACKUP}

\* `data if data else {}`: None and the empty dict are false
RequestData(data) == IF data = Null \/ data = Obj(<<>>) THEN Obj(<<>>) ELSE data

\* ExtaLifeRequest.to_json()
ToJson(command, data) ==
    Dumps(Obj(<<Pair("command", Num(command)), Pair("data", RequestData(data))>>))

\* ExtaLifeRequest.to_string()
ToText(command, data) == IF command # NOOP THEN ToJson(command, data) ELSE <<Sp>>

\* ExtaLifeRequest.to_bytes()
ToBytes(command, data) == ToText(command, data) \o <<ETX>>

\* the frame in which the gateway answers with a command, a status and data
ResponseFrame(command, status, data) ==
    Dumps(Obj(<<Pair("command", Num(command)), Pair("status", StrV(status)),
                Pair("data", data)>>)) \o <<ETX>>

\* readuntil(chr(3).encode())[:-1]: the frame without its last byte
Stripped(frame) == SubSeq(frame, 1, Len(frame) - 1)

NoResponse == [raised |-> TRUE, command |-> 0, status |-> "none", data |-> <<>>]

\* the data of a frame as every command had it
FrameDataPlain(command, response_data) == Get(response_data, "data")

\* the data of a frame: for DOWNLOAD_BACKUP the frame without its command
\* and status, else what its key "data" has
FrameData(command, response_data) ==
    IF command = DOWNLOAD_BACKUP
    THEN PopKey(PopKey(response_data, "command"), "status")
    ELSE Get(response_data, "data")

\* ExtaLifeResponse(str): json.loads, ExtaLifeCmd(...), ExtaLifeResponseStatus(...),
\* each of which raises on what it does not know, and the list of the data
Response(text) ==
    LET loaded == Loads(text)
        response_data == loaded.val
        command == Get(response_data, "command")
        status == Get(response_data, "status")
    IN IF loaded.raised \/ response_data.k # "obj" THEN NoResponse
       ELSE IF command.k # "num" \/ command.n \notin FrameCmds THEN NoResponse
       ELSE IF status.k # "str" \/ status.s \notin ExtaLifeResponseStatus THEN NoResponse
       ELSE [raised |-> FALSE, command |-> command.n, status |-> status.s,
             data |-> <<FrameData(command.n, response_data)>>]

\* the data a caller gives with a command: none, an empty dict, the
\* arguments of a command, and a dict inside a dict
Payloads ==
    { Null, Obj(<<>>),
      Obj(<<Pair("id", Num(11))>>),
      Obj(<<Pair("id", Num(11)), Pair("channel", Num(1))>>),
      Obj(<<Pair("login", StrV("user")), Pair("password", StrV("secret"))>>),
      Obj(<<Pair("id", Num(1)), Pair("state", Obj(<<Pair("power", Num(0))>>))>>) }

(* ---------------- ExtaLifeAPI: the tasks that call it ------------------ *)
\* This part follows ExtaLifeAPI alone.  A session is seen through what its
\* methods answer: async_connect, async_login and async_exec_command return
\* or raise, and a session that fails delivers DISCONNECTED.

\* the call of task t has ended
Ended(a, t, out, err, value) ==
    [a EXCEPT !.call[t].pc = "off", !.call[t].out = out, !.call[t].err = err,
              !.call[t].value = value]

\* a new call of the caller's
Called(a, op) == [a EXCEPT !.call["caller"] = [NoCall EXCEPT !.op = op], !.nops = @ + 1]

\* the client is connected: a command is sent on self._connection
Sent(a, t) == [a EXCEPT !.call[t].on = a.connection]

Idle == api.call["caller"].pc = "off" /\ api.nops < MaxOps

\* _async_do_conn_disconnected as the tasks inside _async_do_conn_connected
\* see it
Disconnected(a, should_reconnect, reconnect) ==
    LET b == DoConnDisconnected(a, should_reconnect, reconnect)
    IN [b EXCEPT !.call = [t \in Tasks |->
                              IF a.connection # 0 /\ b.call[t].pc \in {"config", "version"}
                              THEN [b.call[t] EXCEPT !.lost = TRUE]
                              ELSE b.call[t]]]

\* _async_close of session s from the source src, for the session: the
\* socket is closed
CloseOf(c, s) == [c EXCEPT ![s].socket = FALSE, ![s].writer = FALSE]

\* _async_close of session s from the source src, for the client: nothing
\* without a socket, else DISCONNECTED is delivered
Lost(a, s, src, reconnect) ==
    IF conn[s].socket THEN Disconnected(a, ShouldReconnect(src), reconnect) ELSE a

\* `except ExtaLifeConnError` of async_reconnect
ReconnectSwallows(result) == result = "ConnError"

\* `except ExtaLifeError ... continue` of _async_reconnect_task
TaskContinues(result) == result \in {"ConnError", "CmdError"}

\* async_connect of task t returns ("ok") or raises: to the caller, to
\* async_reconnect, which swallows ExtaLifeConnError, or to the loop of
\* _async_reconnect_task, which breaks or continues
EndConnect(a, t, result) ==
    LET op == a.call[t].op
    IN IF a.call[t].pc \notin {"tcp", "login", "await_task", "config", "version"}
       THEN a
       ELSE IF op = "task"
       THEN IF result = "ok" THEN [a EXCEPT !.call[t].pc = "done"]
            ELSE IF TaskContinues(result) THEN [a EXCEPT !.call[t].pc = "sleep"]
            ELSE [a EXCEPT !.call[t].pc = "failed", !.call[t].err = result]
       ELSE IF result = "ok" \/ (op = "reconnect" /\ ReconnectSwallows(result))
       THEN Ended(a, t, "returned", "none", None)
       ELSE Ended(a, t, "raised", result, None)

\* _async_connect_tcp(_host, _port) of task t: a new session, suspended in
\* its async_connect
Attempting(a, t, s) ==
    [a EXCEPT !.call[t].pc = "tcp", !.call[t].sess = s, !.call[t].attempts = @ + 1,
              !.call[t].lost = FALSE]

\* the caller calls async_connect(username, password, host, port, autodiscover)
CliConnect(h, ad) ==
    /\ Idle
    /\ Cardinality(Unmade) >= (IF h # "" /\ ad THEN 2 ELSE 1)
    /\ LET s == Min(Unmade)
           a == [Called(api, "connect") EXCEPT !.call["caller"].host = h,
                                               !.call["caller"].autodiscover = ad,
                                               !.auth_failed = FALSE]
       IN /\ api' = Attempting(a, "caller", s)
          /\ conn' = [conn EXCEPT ![s] = Opened(@, h)]
    /\ UNCHANGED <<fds, cl, req, nreq, nframes, events, obs>>

\* the caller calls async_reconnect(): async_connect with self.username,
\* self.password, self.host and self.port
CliReconnect ==
    /\ Idle
    /\ Unmade # {}
    /\ LET s == Min(Unmade)
           a == [Called(api, "reconnect") EXCEPT !.call["caller"].host = api.host_prop,
                                                 !.auth_failed = FALSE]
       IN /\ api' = Attempting(a, "caller", s)
          /\ conn' = [conn EXCEPT ![s] = OpenedAt(@, api.host_prop, api.port_prop)]
    /\ UNCHANGED <<fds, cl, req, nreq, nframes, events, obs>>

\* asyncio.sleep(reconnect) of _async_reconnect_task has ended: with a
\* client that is not connected, async_connect with self.username,
\* self.password, self.host and self.port; with one that is, the next sleep
ReconnectWake ==
    /\ api.call["reconnect"].pc = "sleep"
    /\ api.connection = 0
    /\ Unmade # {}
    /\ LET s == Min(Unmade)
           a == [api EXCEPT !.call["reconnect"].host = api.host_prop,
                            !.call["reconnect"].attempts = 0,
                            !.call["reconnect"].auto = api.auth_failed]
       IN /\ api' = Attempting(a, "reconnect", s)
          /\ conn' = [conn EXCEPT ![s] = OpenedAt(@, api.host_prop, api.port_prop)]
    /\ UNCHANGED <<fds, cl, req, nreq, nframes, events, obs>>

\* The attempt of task t has raised ExtaLifeConnError and
\* tcp_conn.async_disconnect() has run: one more attempt by discovery, or
\* the error leaves async_connect.  a is the client as the attempt left it.
AttemptFailed(a, t, c) ==
    IF Retries(a.call[t])
    THEN /\ {s \in Unmade : s # a.call[t].sess} # {}
         /\ LET s == Min({x \in Unmade : x # a.call[t].sess})
            IN /\ api' = Attempting(a, t, s)
               /\ conn' = [c EXCEPT ![s] = Opened(@, "")]
    ELSE /\ api' = EndConnect(a, t, "ConnError")
         /\ conn' = c

\* ExtaLifeConn.async_connect of the session of task t ends: the controller
\* is not discovered, the connection is refused or times out, or it is made
\* and async_login sends LOGIN
ConnTcp(t, outcome) ==
    /\ api.call[t].pc = "tcp"
    /\ LET s == api.call[t].sess
       IN CASE outcome = "ok" ->
                 /\ conn' = [conn EXCEPT ![s].writer = TRUE,
                                         ![s].host = IF @ = "" THEN "found" ELSE @,
                                         ![s].port = IF conn[s].host = ""
                                                     THEN EFC01_DEFAULT_PORT ELSE @]
                 /\ api' = [api EXCEPT !.call[t].pc = "login"]
            [] outcome = "notfound" ->
                 /\ conn[s].host = ""
                 /\ AttemptFailed(api, t, [conn EXCEPT ![s].socket = FALSE])
            [] outcome = "refused" ->
                 \E reconnect \in ReconnectDelays :
                     AttemptFailed(Lost(api, s, "connect", reconnect), t, CloseOf(conn, s))
    /\ UNCHANGED <<fds, cl, req, nreq, nframes, events, obs>>

\* Task.cancel() on the reconnect task by another task: the CancelledError
\* ends its sleep and the task, or is caught around its async_connect, whose
\* session stays as it is
Cancelled(c) ==
    IF c.pc \in {"sleep", "tcp", "login"} THEN [c EXCEPT !.pc = "cancelled"] ELSE c

\* _async_do_conn_connected(sender) from `self._connection = sender` to the
\* command of async_get_config_details
Connected(a, t, c) ==
    Sent([DoConnConnected(a, a.call[t].sess, c) EXCEPT !.call[t].pc = "config"], t)

\* async_login of the session of task t ends.  With SUCCESS, which the read
\* task of an open session has passed on, the session has the credentials
\* and CONNECTED is delivered: a reconnect task is cancelled
\* and awaited; the task itself goes on at once.  ExtaLifeCmdError and
\* ExtaLifeConnError are handled by connection.async_disconnect(), any other
\* exception leaves async_connect and the session as they are.
ConnLogin(t, outcome) ==
    /\ api.call[t].pc = "login"
    /\ LET s == api.call[t].sess
           c == LoggedIn(conn[s])
       IN CASE outcome = "ok" ->
                 /\ conn[s].socket
                 /\ conn' = [conn EXCEPT ![s] = c]
                 /\ api' = IF ~api.reconnect_task \/ t = "reconnect"
                           THEN Connected(api, t, c)
                           ELSE [api EXCEPT !.call[t].pc = "await_task",
                                            !.call["reconnect"] = Cancelled(@)]
            [] outcome = "CmdError" ->
                 /\ conn' = CloseOf(conn, s)
                 /\ \E reconnect \in ReconnectDelays :
                        api' = EndConnect([Lost(api, s, "disconnect", reconnect)
                                              EXCEPT !.auth_failed = TRUE], t, outcome)
            [] outcome = "Error" ->
                 /\ api' = EndConnect([api EXCEPT !.auth_failed = TRUE], t, outcome)
                 /\ UNCHANGED conn
            [] outcome = "ConnError" ->
                 /\ conn' = CloseOf(conn, s)
                 /\ \E reconnect \in ReconnectDelays :
                        api' = EndConnect(Lost(api, s, "request", reconnect), t, outcome)
    /\ UNCHANGED <<fds, cl, req, nreq, nframes, events, obs>>

\* `await self._reconnect_task` ends: with CancelledError, which is caught,
\* or without; with the exception that ended the task, which leaves
\* async_connect
ConnAwaited(t) ==
    /\ api.call[t].pc = "await_task"
    /\ api' = IF api.call["reconnect"].pc = "failed"
              THEN EndConnect(api, t, "Error")
              ELSE Connected(api, t, conn[api.call[t].sess])
    /\ UNCHANGED <<conn, fds, cl, req, nreq, nframes, events, obs>>

\* what a command that is under way can come to: a response, whose last
\* frame has one of the terminal statuses, ExtaLifeConnError after the
\* session has closed itself, or an exception that is no ExtaLifeError
Errors == {"ConnError", "Error"}

\* async_get_config_details of _async_do_conn_connected ends;
\* async_check_version sends its command when the client is still connected.
\* A reconnect task whose place a new one has taken ends without another
\* change of the client.
ConnConfig(t, outcome) ==
    /\ api.call[t].pc = "config"
    /\ LET s == api.call[t].on
           after(a) == IF a.call[t].pc # "config" THEN a
                       ELSE IF a.connection = 0 THEN EndConnect(a, t, "ok")
                       ELSE Sent([a EXCEPT !.call[t].pc = "version"], t)
       IN CASE outcome = "ConnError" ->
                 /\ conn' = CloseOf(conn, s)
                 /\ \E reconnect \in ReconnectDelays :
                        api' = after(Lost(api, s, "request", reconnect))
            [] outcome = "Error" ->
                 /\ api' = EndConnect(api, t, "Error")
                 /\ UNCHANGED conn
            [] outcome \in Terminal ->
                 /\ api' = after(api)
                 /\ UNCHANGED conn
    /\ UNCHANGED <<fds, cl, req, nreq, nframes, events, obs>>

\* async_check_version of _async_do_conn_connected ends, the on-connect
\* callback runs and async_connect returns response[0]
ConnVersion(t, outcome) ==
    /\ api.call[t].pc = "version"
    /\ LET s == api.call[t].on
       IN CASE outcome = "ConnError" ->
                 /\ conn' = CloseOf(conn, s)
                 /\ \E reconnect \in ReconnectDelays :
                        api' = EndConnect(Lost(api, s, "request", reconnect), t, "ok")
            [] outcome = "Error" ->
                 /\ api' = EndConnect(api, t, "Error")
                 /\ UNCHANGED conn
            [] outcome \in Terminal ->
                 /\ api' = EndConnect(api, t, "ok")
                 /\ UNCHANGED conn
    /\ UNCHANGED <<fds, cl, req, nreq, nframes, events, obs>>

\* The read task or the ping task of a connected session fails:
\* _async_close and DISCONNECTED with should_reconnect
SessionLost(s) ==
    /\ conn[s].socket
    /\ conn[s].writer
    /\ conn' = CloseOf(conn, s)
    /\ \E reconnect \in ReconnectDelays : api' = Lost(api, s, "read_task", reconnect)
    /\ UNCHANGED <<fds, cl, req, nreq, nframes, events, obs>>

\* the caller calls async_disconnect():
\* `if self._connection: await self._connection.async_disconnect()`
CliDisconnect ==
    /\ Idle
    /\ LET a == Ended(Called(api, "disconnect"), "caller", "returned", "none", None)
       IN IF api.connection # 0
          THEN /\ conn' = CloseOf(conn, api.connection)
               /\ \E reconnect \in ReconnectDelays :
                      api' = Lost(a, api.connection, "disconnect", reconnect)
          ELSE /\ api' = a
               /\ UNCHANGED conn
    /\ UNCHANGED <<fds, cl, req, nreq, nframes, events, obs>>

(* ------------- ExtaLifeAPI: commands of a connected client ------------- *)
\* What self._connection.async_exec_command answers: a response with the
\* status of its last frame and the data of its frames, or, written as a
\* status, ExtaLifeConnError or an exception that is no ExtaLifeError.
Answer(status, data) == [status |-> status, data |-> data]

\* the data of a frame of a command that succeeded, of a FAILURE frame with
\* its vendor code, and of a FAILURE frame without data
Fragment == [result |-> 1]
ErrorFragment == [code |-> 1]

ExecAnswers ==
    { Answer(SUCCESS, <<Fragment>>), Answer(FAILURE, <<ErrorFragment>>),
      Answer(FAILURE, <<None>>), Answer("ConnError", <<>>), Answer("Error", <<>>) }

\* a device with one state, and one without a channel number
OneChannel == [id |-> 11, type |-> 11, state |-> <<[channel |-> 1, power |-> 0]>>]
NoChannel == [id |-> 12, type |-> 19, state |-> <<[battery_status |-> 1]>>]

FetchAnswers ==
    { Answer(SUCCESS, <<[devices |-> <<OneChannel>>]>>),
      Answer(SUCCESS, <<[devices |-> <<OneChannel>>], [devices |-> <<NoChannel>>]>>),
      Answer(FAILURE, <<ErrorFragment>>),
      Answer("ConnError", <<>>), Answer("Error", <<>>) }

\* ExtaLifeAPI.async_exec_command of a connected client with the
\* ExtaLifeError raised again
ExecCommandRaises(answer) ==
    IF answer.status \in Errors
    THEN [out |-> "raised", err |-> answer.status, value |-> None]
    ELSE [out |-> "returned", err |-> "none", value |-> answer]

\* ExtaLifeAPI.async_exec_command of a connected client: the response, None
\* for an ExtaLifeError, which is logged; any other exception passes
ExecCommand(answer) ==
    IF answer.status = "ConnError"
    THEN [out |-> "returned", err |-> "none", value |-> None]
    ELSE IF answer.status = "Error"
    THEN [out |-> "raised", err |-> "Error", value |-> None]
    ELSE [out |-> "returned", err |-> "none", value |-> answer]

\* `if response:`: ExtaLifeResponse defines neither __bool__ nor __len__, so
\* every response is true and None is not
Truthy(response) == response # None

\* response[0]
First(response) == response.data[1]

\* `if response: return response[0]` and `return None` of
\* async_check_version and async_execute_action
FirstOrNone(r) ==
    IF r.out # "returned" THEN r
    ELSE IF Truthy(r.value) THEN [r EXCEPT !.value = First(r.value)]
    ELSE [r EXCEPT !.value = None]

\* the operations that are one command
Commands == {"exec_command", "post_command", "check_version", "execute_action"}

\* what the operation op makes of the answer to its command
Result(op, answer) ==
    LET r == ExecCommand(answer)
    IN CASE op = "exec_command" -> r
         [] op = "post_command" -> [r EXCEPT !.value = None]
         [] op \in {"check_version", "execute_action"} -> FirstOrNone(r)

\* The caller calls async_exec_command, async_post_command,
\* async_check_version or async_execute_action: with a client that is not
\* connected, a warning and None
CliExec(op) ==
    /\ Idle
    /\ api' = IF api.connection = 0
              THEN Ended(Called(api, op), "caller", "returned", "none", None)
              ELSE Sent([Called(api, op) EXCEPT !.call["caller"].pc = "exec"], "caller")
    /\ UNCHANGED <<conn, fds, cl, req, nreq, nframes, events, obs>>

\* the command of the caller ends; a session that raises ExtaLifeConnError
\* has closed itself
CliExecEnds(answer) ==
    /\ api.call["caller"].pc = "exec"
    /\ LET c == api.call["caller"]
           r == Result(c.op, answer)
           a == Ended([api EXCEPT !.call["caller"].status = answer.status],
                      "caller", r.out, r.err, r.value)
       IN IF answer.status = "ConnError"
          THEN /\ conn' = CloseOf(conn, c.on)
               /\ \E reconnect \in ReconnectDelays :
                      api' = Lost(a, c.on, "request", reconnect)
          ELSE /\ api' = a
               /\ UNCHANGED conn
    /\ UNCHANGED <<fds, cl, req, nreq, nframes, events, obs>>

\* the channel types in the order async_get_channels asks for them
Categories == <<"receivers", "sensors", "transmitters", "exta_free_receivers">>

\* the values of the parameter include
Includes == {{"receivers"}, {"receivers", "transmitters"}, {"sensors", "transmitters"}}

\* dummy_channel of _async_get_channels: True for the transmitters
DummyChannel(category) == category = "transmitters"

\* async_get_channels from the test of the next channel type on:
\* _async_get_channels sends nothing when the client is not connected, so
\* the types that are left then add nothing and the list is returned
NextFetch(a) ==
    LET c == a.call["caller"]
    IN IF c.left = <<>> \/ a.connection = 0
       THEN Ended(a, "caller", "returned", "none", [list |-> c.channels])
       ELSE Sent([a EXCEPT !.call["caller"].pc = "fetch"], "caller")

\* the caller calls async_get_channels(include)
CliGetChannels(include) ==
    /\ Idle
    /\ api' = NextFetch([Called(api, "get_channels") EXCEPT
                            !.call["caller"].left =
                                SelectSeq(Categories, LAMBDA x : x \in include)])
    /\ UNCHANGED <<conn, fds, cl, req, nreq, nframes, events, obs>>

\* The fetch of one channel type ends: `if response:` the data are
\* transformed and the records added; an exception of the transformation
\* leaves async_get_channels.  Then the next type.
CliFetchEnds(answer) ==
    /\ api.call["caller"].pc = "fetch"
    /\ LET c == api.call["caller"]
           r == ExecCommand(answer)
           tr == TransformChannels(r.value.data, 1, DummyChannel(Head(c.left)))
           logged == [api EXCEPT !.call["caller"].log =
                                     Append(@, [category |-> Head(c.left),
                                                status |-> answer.status,
                                                data |-> answer.data]),
                                 !.call["caller"].left = Tail(@)]
           a == IF r.out = "raised"
                THEN Ended(logged, "caller", "raised", r.err, None)
                ELSE IF ~Truthy(r.value)
                THEN logged
                ELSE IF tr.raised
                THEN Ended(logged, "caller", "raised", "KeyError", None)
                ELSE [logged EXCEPT !.call["caller"].channels = @ \o tr.channels]
       IN IF answer.status = "ConnError"
          THEN /\ conn' = CloseOf(conn, c.on)
               /\ \E reconnect \in ReconnectDelays :
                      api' = NextFetch(Lost(a, c.on, "request", reconnect))
          ELSE /\ api' = IF a.call["caller"].pc = "off" THEN a ELSE NextFetch(a)
               /\ UNCHANGED conn
    /\ UNCHANGED <<fds, cl, req, nreq, nframes, events, obs>>

(* ------------------------------ the clock ------------------------------ *)
\* The steps of tasks that are ready to run: the event loop runs them before
\* it waits for a timer or for input.
Immediate ==
    \/ \E r \in Requests : ReqAcquire(r) \/ ReqWrite(r) \/ ReqTimeout(r)
    \/ \E r \in Requests : ReqTimeoutHandle(r) \/ ReqClosed(r) \/ ReqReturn(r)
    \/ \E s \in Sessions : PingWrite(s)
    \/ \E s \in Sessions, t \in Threads :
          CloseAwaitPing(s, t) \/ CloseAwaitRead(s, t) \/ CloseFinish(s, t)
    \/ ApiTcpClosed \/ ApiAttemptClosed \/ ApiLoginDone \/ ApiFailClosed
    \/ ApiCfgDone \/ ApiVerDone \/ ApiDisconnected

\* the clocks of a call that posts or waits
Advance(q) ==
    IF q.pc \in {"post", "drain", "wait"}
    THEN [q EXCEPT !.idle = IF @ + TickLen > IdleCap THEN IdleCap ELSE @ + TickLen,
                   !.waited = IF q.pc = "wait" THEN @ + TickLen ELSE @]
    ELSE q

\* the observer's clock
Elapse(o, q) ==
    IF q.pc \in {"post", "drain", "wait"}
    THEN [o EXCEPT !.gap = IF @ + TickLen > Timeout THEN Timeout ELSE @ + TickLen,
                   !.slow = @ \/ o.gap + TickLen >= Timeout]
    ELSE o

\* time passes while a call is under way and no task is ready to run
Tick ==
    /\ \E r \in Requests : req[r].pc \in {"post", "drain", "wait"}
    /\ ~ENABLED Immediate
    /\ req' = [r \in Requests |-> Advance(req[r])]
    /\ obs' = [r \in Requests |-> Elapse(obs[r], req[r])]
    /\ UNCHANGED <<conn, fds, cl, nreq, nframes, api, events>>

(* --------------------------- specifications ---------------------------- *)
\* the steps of a session: requests, the read and ping tasks, the close
\* procedure, the clock
SessionStep ==
    \/ \E r \in Requests : ReqAcquire(r)
    \/ \E r \in Requests : ReqWrite(r)
    \/ \E r \in Requests, ok \in BOOLEAN : ReqDrain(r, ok)
    \/ \E r \in Requests : ReqTimeout(r)
    \/ \E r \in Requests : ReqTimeoutHandle(r)
    \/ \E r \in Requests : ReqClosed(r)
    \/ \E r \in Requests : ReqReturn(r)
    \/ Tick
    \/ \E s \in Sessions, w \in WireFrames : ReadFrame(s, w)
    \/ \E s \in Sessions : ReadError(s)
    \/ \E s \in Sessions : PingPost(s)
    \/ \E s \in Sessions : PingWrite(s)
    \/ \E s \in Sessions, ok \in BOOLEAN : PingDrain(s, ok)
    \/ \E s \in Sessions, t \in Threads : CloseAwaitPing(s, t)
    \/ \E s \in Sessions, t \in Threads : CloseAwaitRead(s, t)
    \/ \E s \in Sessions, t \in Threads : CloseFinish(s, t)

\* the steps of ExtaLifeAPI.async_connect
ConnectStep ==
    \/ \E h \in {"", "addr"}, ad \in BOOLEAN : ApiConnect(h, ad)
    \/ \E found \in BOOLEAN : ApiDiscover(found)
    \/ \E outcome \in {"ok", "timeout", "refused"} : ApiTcp(outcome)
    \/ ApiTcpClosed
    \/ ApiAttemptClosed
    \/ ApiLoginDone
    \/ ApiFailClosed
    \/ ApiCfgDone
    \/ ApiVerDone

\* the steps of the user of a connected client
UserStep ==
    \/ ApiDisconnect
    \/ \E s \in Sessions : ConnDisconnect(s)
    \/ ApiDisconnected
    \/ ApiExec(FETCH_RECEIVERS)

\* The client from its construction.
Next == ConnectStep \/ SessionStep

Spec == Init /\ [][Next]_vars

\* The client after a successful async_connect: session 1 is open and
\* authenticated, its tasks run, CONNECTED has been delivered.
InitSession ==
    /\ conn = [s \in Sessions |->
                 IF s = 1
                 THEN [LoggedIn(Opened(NoConn, "addr")) EXCEPT
                                     !.writer = TRUE,
                                     !.read_ref = TRUE, !.read_task = "running",
                                     !.ping_ref = TRUE, !.ping_task = "sleep"]
                 ELSE NoConn]
    /\ fds = [s \in Sessions |-> IF s = 1 THEN "open" ELSE "none"]
    /\ cl = [s \in Sessions |-> [t \in Threads |-> NoClose]]
    /\ req = [r \in Requests |-> NoReq]
    /\ nreq = 0
    /\ nframes = 0
    /\ api = DoConnConnected([NoApi EXCEPT !.sess = 1, !.host = "addr", !.attempts = 1,
                                          !.ncalls = 1, !.result = "ok", !.stage = "connected"],
                             1, LoggedIn(Opened(NoConn, "addr")))
    /\ events = <<Event(1, "CONNECTED", 0)>>
    /\ obs = [r \in Requests |-> NoObs]

NextSession == UserStep \/ SessionStep

SessionSpec == InitSession /\ [][NextSession]_vars

(* ------------------------------ fairness ------------------------------- *)
\* The event loop runs a task that is ready, a drain ends, and time passes.
Fairness ==
    /\ WF_vars(Immediate)
    /\ WF_vars(Tick)
    /\ WF_vars(\E r \in Requests, ok \in BOOLEAN : ReqDrain(r, ok))

FairSessionSpec == SessionSpec /\ Fairness

(* -------------------------- the client's steps ------------------------- *)
ClientStep ==
    \/ \E h \in {"", "addr"}, ad \in BOOLEAN : CliConnect(h, ad)
    \/ CliReconnect
    \/ CliDisconnect
    \/ \E op \in Commands : CliExec(op)
    \/ \E answer \in ExecAnswers : CliExecEnds(answer)
    \/ \E include \in Includes : CliGetChannels(include)
    \/ \E answer \in FetchAnswers : CliFetchEnds(answer)
    \/ ReconnectWake
    \/ \E t \in Tasks, outcome \in {"ok", "notfound", "refused"} : ConnTcp(t, outcome)
    \/ \E t \in Tasks, outcome \in {"ok", "CmdError", "Error", "ConnError"} : ConnLogin(t, outcome)
    \/ \E t \in Tasks : ConnAwaited(t)
    \/ \E t \in Tasks, outcome \in Terminal \cup Errors : ConnConfig(t, outcome)
    \/ \E t \in Tasks, outcome \in Terminal \cup Errors : ConnVersion(t, outcome)
    \/ \E s \in Sessions : SessionLost(s)

\* The client with the tasks that call it, from its construction.
ClientSpec == Init /\ [][ClientStep]_vars

(* ------- ExtaLifeAPI: the disconnect handler in its callback ----------- *)
\* _async_do_conn_disconnected to `await self._on_disconnect_callback()`: a
\* client that is connected is not any more
InCallback(a) == Disconnected(a, FALSE, 0)

\* _async_do_conn_disconnected after the callback has answered reconnect
AfterCallback(a, should_reconnect, reconnect) ==
    IF should_reconnect /\ reconnect > 0
    THEN [a EXCEPT !.reconnect_task = TRUE, !.call["reconnect"] = Sleeping(reconnect)]
    ELSE a

\* The read task of a connected session fails while the client is
\* connected: _async_close, and DISCONNECTED, whose handler suspends in the
\* on-disconnect callback; the read task waits for it
SessionLostInCallback(s) ==
    /\ conn[s].socket
    /\ conn[s].writer
    /\ api.connection # 0
    /\ cl[s]["read_task"].pc = "off"
    /\ conn' = CloseOf(conn, s)
    /\ api' = InCallback(api)
    /\ cl' = [cl EXCEPT ![s]["read_task"] = [pc |-> "callback", src |-> "read_task"]]
    /\ UNCHANGED <<fds, req, nreq, nframes, events, obs>>

\* the on-disconnect callback of the handler that session s called returns
CallbackReturns(s) ==
    /\ cl[s]["read_task"].pc = "callback"
    /\ \E reconnect \in ReconnectDelays :
           api' = AfterCallback(api, ShouldReconnect(cl[s]["read_task"].src), reconnect)
    /\ cl' = [cl EXCEPT ![s]["read_task"] = NoClose]
    /\ UNCHANGED <<conn, fds, req, nreq, nframes, events, obs>>

CallbackStep ==
    \/ ClientStep
    \/ \E s \in Sessions : SessionLostInCallback(s)
    \/ \E s \in Sessions : CallbackReturns(s)

\* The client with an on-disconnect callback that may suspend.
CallbackSpec == Init /\ [][CallbackStep]_vars

\* _transform_channels is called with the data of a response
InitTransform ==
    /\ conn = [s \in Sessions |-> NoConn]
    /\ fds = [s \in Sessions |-> "none"]
    /\ cl = [s \in Sessions |-> [t \in Threads |-> NoClose]]
    /\ req = [r \in Requests |-> NoReq]
    /\ nreq = 0
    /\ nframes = 0
    /\ events = <<>>
    /\ obs = [r \in Requests |-> NoObs]
    /\ \E data_list \in DataLists, dummy_channel \in BOOLEAN :
           api = [NoApi EXCEPT !.call["caller"] =
                     [NoCall EXCEPT !.op = "transform", !.pc = "called",
                                    !.given = data_list,
                                    !.arg = [data_list |-> data_list,
                                             dummy_channel |-> dummy_channel]]]

\* the call runs: its result, and its argument as it leaves it
ApiTransform ==
    /\ api.call["caller"].pc = "called"
    /\ LET arg == api.call["caller"].arg
           tr == TransformChannels(arg.data_list, 1, arg.dummy_channel)
       IN api' = Ended([api EXCEPT !.call["caller"].arg.data_list = tr.data_list],
                       "caller", IF tr.raised THEN "raised" ELSE "returned",
                       IF tr.raised THEN "KeyError" ELSE "none",
                       [list |-> tr.channels])
    /\ UNCHANGED <<conn, fds, cl, req, nreq, nframes, events, obs>>

NextTransform == ApiTransform

TransformSpec == InitTransform /\ [][NextTransform]_vars

\* A request is made of a command and its data and encoded, and the frame
\* that answers with the same command and data is decoded.
InitCodec ==
    /\ conn = [s \in Sessions |-> NoConn]
    /\ fds = [s \in Sessions |-> "none"]
    /\ cl = [s \in Sessions |-> [t \in Threads |-> NoClose]]
    /\ req = [r \in Requests |-> NoReq]
    /\ nreq = 0
    /\ nframes = 0
    /\ events = <<>>
    /\ obs = [r \in Requests |-> NoObs]
    /\ \E command \in FrameCmds, data \in Payloads, status \in ExtaLifeResponseStatus :
           api = [NoApi EXCEPT !.call["caller"] =
                     [NoCall EXCEPT !.op = "codec", !.pc = "called",
                                    !.arg = [command |-> command, data |-> data,
                                             status |-> status]]]

\* ExtaLifeRequest(command, data).to_bytes(), and the frame of the answer
ApiEncode ==
    /\ api.call["caller"].pc = "called"
    /\ LET arg == api.call["caller"].arg
       IN api' = [api EXCEPT !.call["caller"].pc = "encoded",
                             !.call["caller"].value =
                                 [bytes |-> ToBytes(arg.command, arg.data),
                                  frame |-> ResponseFrame(arg.command, arg.status,
                                                          RequestData(arg.data)),
                                  response |-> NoResponse]]
    /\ UNCHANGED <<conn, fds, cl, req, nreq, nframes, events, obs>>

\* the read task reads the frame up to its ETX and decodes it
ApiDecode ==
    /\ api.call["caller"].pc = "encoded"
    /\ LET c == api.call["caller"]
           response == Response(Stripped(c.value.frame))
       IN api' = Ended(api, "caller", IF response.raised THEN "raised" ELSE "returned",
                       IF response.raised THEN "ValueError" ELSE "none",
                       [c.value EXCEPT !.response = response])
    /\ UNCHANGED <<conn, fds, cl, req, nreq, nframes, events, obs>>

NextCodec == ApiEncode \/ ApiDecode

CodecSpec == InitCodec /\ [][NextCodec]_vars

(* ------------- ExtaLifeConnParams.get_host_and_port --------------------- *)
\* An address string is the sequence of its characters: a letter, the
\* colon, two digits and the minus sign.
AddrChars == {"h", ":", "0", "9", "-"}

\* the parts of a string between its colons: addr.rsplit(":")
RECURSIVE RSplit(_)
RSplit(text) ==
    IF \E i \in 1..Len(text) : text[i] = ":"
    THEN LET i == CHOOSE j \in 1..Len(text) :
                      text[j] = ":" /\ \A k \in (j + 1)..Len(text) : text[k] # ":"
         IN RSplit(SubSeq(text, 1, i - 1)) \o <<SubSeq(text, i + 1, Len(text))>>
    ELSE <<text>>

IsDigits(text) ==
    text # <<>> /\ \A i \in 1..Len(text) : \E d \in 1..10 : Digits[d] = text[i]

\* the number that a string of digits writes
RECURSIVE Number(_)
Number(text) ==
    IF text = <<>> THEN 0
    ELSE 10 * Number(SubSeq(text, 1, Len(text) - 1))
         + (CHOOSE d \in 0..9 : Digits[d + 1] = text[Len(text)])

\* int(text): the value of an optional sign and digits, and ValueError for
\* every other string of these characters
ParseInt(text) ==
    IF IsDigits(text) THEN [raised |-> FALSE, value |-> Number(text)]
    ELSE IF text # <<>> /\ Head(text) = "-" /\ IsDigits(Tail(text))
    THEN [raised |-> FALSE, value |-> 0 - Number(Tail(text))]
    ELSE [raised |-> TRUE, value |-> 0]

\* `if 0 >= port > 65535:`, which is `0 >= port and port > 65535`
OutOfRange(port) == 0 >= port /\ port > 65535

\* ExtaLifeConnParams.get_host_and_port(addr)
GetHostAndPort(addr) ==
    LET parts == RSplit(addr)
        split == IF Len(parts) # 2
                 THEN [host |-> addr, port |-> EFC01_DEFAULT_PORT]
                 ELSE [host |-> parts[1],
                       port |-> IF parts[2] = <<>> \/ ParseInt(parts[2]).raised
                                THEN EFC01_DEFAULT_PORT
                                ELSE ParseInt(parts[2]).value]
    IN IF OutOfRange(split.port) THEN [split EXCEPT !.port = EFC01_DEFAULT_PORT] ELSE split

\* get_host_and_port is called with an address string
InitAddr ==
    /\ conn = [s \in Sessions |-> NoConn]
    /\ fds = [s \in Sessions |-> "none"]
    /\ cl = [s \in Sessions |-> [t \in Threads |-> NoClose]]
    /\ req = [r \in Requests |-> NoReq]
    /\ nreq = 0
    /\ nframes = 0
    /\ events = <<>>
    /\ obs = [r \in Requests |-> NoObs]
    /\ \E addr \in SeqsUpTo(AddrChars, MaxAddr) :
           api = [NoApi EXCEPT !.call["caller"] =
                     [NoCall EXCEPT !.op = "get_host_and_port", !.pc = "called",
                                    !.arg = addr]]

\* get_host_and_port returns
ApiGetHostAndPort ==
    /\ api.call["caller"].op = "get_host_and_port"
    /\ api.call["caller"].pc = "called"
    /\ api' = Ended(api, "caller", "returned", "none",
                    GetHostAndPort(api.call["caller"].arg))
    /\ UNCHANGED <<conn, fds, cl, req, nreq, nframes, events, obs>>

NextAddr == ApiGetHostAndPort

AddrSpec == InitAddr /\ [][NextAddr]_vars

(* ---------------- the ping task with its clock ------------------------- *)
\* A session with the clock of the run ("now"), self._tcp_last_write and the
\* time at which the asyncio.sleep of the ping task ends ("wake"), in tenths
\* of a second.
Timed(c, now) ==
    [k \in DOMAIN c \cup {"now", "tcp_last_write", "wake"} |->
        IF k \in DOMAIN c THEN c[k]
        ELSE IF k = "now" THEN now ELSE 0]

\* timedelta.seconds rounded up to the next second
SecondsRoundedUp(d) == ((d + 9) \div 10) % 86400

\* timedelta.seconds of a difference d >= 0 of two times: the whole seconds
\* of the part below one day
Seconds(d) == (d \div 10) % 86400

\* _async_post_data by the task t to its first suspension: with the write
\* lock free the frame is written, self._tcp_last_write = now, and the task
\* is in the drain; else it queues for the lock
PostData(c, t) ==
    IF c.write_lock = <<>>
    THEN [c |-> [c EXCEPT !.write_lock = <<t>>, !.tcp_last_write = c.now], pc |-> "drain"]
    ELSE [c |-> [c EXCEPT !.write_lock = Acquire(@, t)], pc |-> "post"]

\* the write lock is handed to the task that queued:
\* self._tcp_writer.write(data); self._tcp_last_write = datetime.now()
WriteData(c) == [c EXCEPT !.tcp_last_write = c.now]

\* The session is connected and logged in, the LOGIN frame was its last
\* write, and the ping task starts.
InitPing ==
    /\ \E now \in {0, 5} :
           conn = [s \in Sessions |->
                     IF s = 1
                     THEN Timed([LoggedIn(Opened(NoConn, "addr")) EXCEPT
                                     !.writer = TRUE,
                                     !.read_ref = TRUE, !.read_task = "running",
                                     !.ping_ref = TRUE, !.ping_task = "sleep"], now)
                     ELSE NoConn]
    /\ fds = [s \in Sessions |-> IF s = 1 THEN "open" ELSE "none"]
    /\ cl = [s \in Sessions |-> [t \in Threads |-> NoClose]]
    /\ req = [r \in Requests |-> NoReq]
    /\ nreq = 0
    /\ nframes = 0
    /\ api = DoConnConnected([NoApi EXCEPT !.sess = 1, !.host = "addr", !.attempts = 1,
                                          !.ncalls = 1, !.result = "ok", !.stage = "connected"],
                             1, LoggedIn(Opened(NoConn, "addr")))
    /\ events = <<Event(1, "CONNECTED", 0)>>
    /\ obs = [r \in Requests |-> NoObs]

\* the ping task runs: it is in its loop and its sleep, if any, has ended
PingReady(c) == c.ping_task = "sleep" /\ c.now >= c.wake

\* one turn of the loop of _async_ping_task, to its suspension: the sleep
\* for the rest of the keepalive, or the post of NOOP
PingLoop(s) ==
    /\ PingReady(conn[s])
    /\ LET c == conn[s]
           last_write == Seconds(c.now - c.tcp_last_write)
       IN IF last_write < Keepalive
          THEN conn' = [conn EXCEPT ![s].wake = c.now + (Keepalive - last_write) * 10]
          ELSE LET st == PostData(c, "ping_task")
               IN conn' = [conn EXCEPT ![s] = [st.c EXCEPT !.ping_task = st.pc]]
    /\ UNCHANGED <<fds, cl, req, nreq, nframes, api, events, obs>>

\* the ping task gets the write lock and writes the NOOP frame
PingWriteData(s) ==
    /\ conn[s].ping_task = "post"
    /\ Holds(conn[s].write_lock, "ping_task")
    /\ conn' = [conn EXCEPT ![s] = [WriteData(conn[s]) EXCEPT !.ping_task = "drain"]]
    /\ UNCHANGED <<fds, cl, req, nreq, nframes, api, events, obs>>

\* a task of the integration posts a command with async_post_command
PostCommand(s) ==
    /\ conn[s].socket
    /\ nreq < MaxPosts
    /\ req[1].pc = "none"
    /\ nreq' = nreq + 1
    /\ LET st == PostData(conn[s], "request")
       IN /\ conn' = [conn EXCEPT ![s] = st.c]
          /\ req' = [req EXCEPT ![1] = [NoReq EXCEPT !.sess = s, !.kind = "post", !.pc = st.pc]]
    /\ UNCHANGED <<fds, cl, nframes, api, events, obs>>

\* the posting task gets the write lock and writes its frame
PostWriteData(s) ==
    /\ req[1].pc = "post" /\ req[1].sess = s
    /\ Holds(conn[s].write_lock, "request")
    /\ conn' = [conn EXCEPT ![s] = WriteData(conn[s])]
    /\ req' = [req EXCEPT ![1].pc = "drain"]
    /\ UNCHANGED <<fds, cl, nreq, nframes, api, events, obs>>

\* the drain of the posted command returns
PostDrained(s) ==
    /\ req[1].pc = "drain" /\ req[1].sess = s
    /\ conn' = [conn EXCEPT ![s].write_lock = Release(@)]
    /\ req' = [req EXCEPT ![1] = NoReq]
    /\ UNCHANGED <<fds, cl, nreq, nframes, api, events, obs>>

\* a task is ready to run
PingImmediate(s) ==
    \/ PingReady(conn[s])
    \/ conn[s].ping_task = "post" /\ Holds(conn[s].write_lock, "ping_task")
    \/ req[1].pc = "post" /\ Holds(conn[s].write_lock, "request")
    \/ \E t \in Threads : cl[s][t].pc \in {"ping_wait", "read_wait"}
    \/ \E t \in Threads : cl[s][t].pc = "lock_wait" /\ Holds(conn[s].write_lock, t)

\* time passes by d while no task is ready to run, and not beyond the end
\* of the sleep of the ping task
PingTick(s, d) ==
    /\ ~PingImmediate(s)
    /\ conn[s].now + d <= MaxNow
    /\ conn[s].ping_task = "sleep" => conn[s].now + d <= conn[s].wake
    /\ conn' = [conn EXCEPT ![s].now = @ + d]
    /\ UNCHANGED <<fds, cl, req, nreq, nframes, api, events, obs>>

NextPing ==
    \/ PingLoop(1)
    \/ PingWriteData(1)
    \/ \E ok \in BOOLEAN : PingDrain(1, ok)
    \/ PostCommand(1)
    \/ PostWriteData(1)
    \/ PostDrained(1)
    \/ \E d \in {5, 10} : PingTick(1, d)
    \/ \E t \in Threads : CloseAwaitPing(1, t)
    \/ \E t \in Threads : CloseAwaitRead(1, t)
    \/ \E t \in Threads : CloseFinish(1, t)

\* The ping task of a connected session, with the clock.
PingSpec == InitPing /\ [][NextPing]_vars

(* ------------------------------ properties ----------------------------- *)
Last(q) == q[Len(q)]

\* C1: a call in flight has its result from the first terminal frame of its
\* command on, and then holds exactly the accumulation frames read for it and
\* that terminal frame, in the order of their arrival.
ResolvesOnceInOrder ==
    \A r \in Requests :
        InFlight(req[r]) =>
            /\ obs[r].term = 1 => req[r].fut = "result"
            /\ req[r].fut = "result" =>
                  /\ obs[r].term = 1
                  /\ Len(req[r].responses) = obs[r].acc + 1
                  /\ Last(req[r].responses).status \in Terminal
                  /\ \A i \in 1..(Len(req[r].responses) - 1) :
                         /\ req[r].responses[i].status \in Accumulating
                         /\ req[r].responses[i].id < req[r].responses[i + 1].id

\* C2: no NOTIFICATION frame is in the list of fragments of a call, and a
\* call whose future has its result got it from a SUCCESS or FAILURE frame
\* of its command, the last of its list.
NotificationIsolated ==
    \A r \in Requests :
        /\ \A i \in 1..Len(req[r].responses) : req[r].responses[i].status # NOTIFICATION
        /\ (InFlight(req[r]) /\ req[r].fut = "result") =>
              /\ req[r].responses # <<>>
              /\ Last(req[r].responses).status \in Terminal
              /\ Last(req[r].responses).command = req[r].cmd

\* a NOTIFICATION frame of the command of a waiting call has been read after
\* time had passed: the call still waits with an empty list
NotificationWhilePending ==
    \E r \in Requests :
        /\ req[r].pc = "wait"
        /\ req[r].idle = 0
        /\ obs[r].gap > 0
        /\ req[r].responses = <<>>
        /\ \E i \in 1..Len(events) : events[i].ev = "NOTIFICATION" /\ events[i].data = nframes

\* the call has posted its request and waits for the response
Pending(r) == req[r].pc \in {"wait", "cancelled"}

\* C3: a call that waits for its response on a session whose socket has been
\* released ends by raising ExtaLifeConnError.
ClosedWhilePendingRaises ==
    \A r \in Requests :
        (Pending(r) /\ ~conn[req[r].sess].socket)
            ~> (req[r].pc = "raised" /\ req[r].err = "ConnError")

\* another task has closed the session under a waiting call, whose wait_for
\* has run out
ClosedUnderPending ==
    \E r \in Requests :
        /\ req[r].pc = "cancelled"
        /\ TimedOut(req[r])
        /\ ~conn[req[r].sess].socket
        /\ fds[req[r].sess] = "closed"

\* C4: a call closes the session for a timeout only after the wire has been
\* silent for the timeout: never while the accumulation frames of its command
\* follow each other, and the start of the call, at shorter intervals.
NoTimeoutWhileFramesArrive ==
    \A r \in Requests : req[r].pc = "timed_out" => obs[r].slow

\* wait_for has run out on a call that has got an accumulation frame and has
\* never been without one for the timeout
RearmedAfterFrame ==
    \E r \in Requests :
        /\ req[r].pc = "cancelled"
        /\ obs[r].acc >= 1
        /\ ~obs[r].slow
        /\ ~TimedOut(req[r])

\* C5: a disconnect() that follows a returned disconnect() changes no
\* session, closes no socket, delivers no event and starts no close.
SecondDisconnectNoOp ==
    [][(api.ndisc >= 1 /\ api'.ndisc = api.ndisc + 1)
          => (conn' = conn /\ fds' = fds /\ events' = events /\ cl' = cl)]_vars

\* disconnect() has closed the session and a second disconnect() has returned
DisconnectedTwice ==
    /\ api.ndisc >= 2
    /\ api.pc = "idle"
    /\ fds[1] = "closed"
    /\ \E i \in 1..Len(events) : events[i] = Event(1, "DISCONNECTED", 0)

Ids(q) == {q[i].id : i \in 1..Len(q)}

\* C6: the list of fragments of a call holds only frames read after the call
\* registered its handler, and no frame is in the lists of two calls.
NoFragmentOfEarlierCall ==
    \A r \in Requests :
        /\ \A i \in Ids(req[r].responses) : i > obs[r].start
        /\ \A p \in Requests \ {r} : Ids(req[r].responses) \cap Ids(req[p].responses) = {}

\* the second of two calls for one command has its result, after frames that
\* the first call got
SecondCallResolved ==
    \E p, r \in Requests :
        /\ p < r
        /\ req[p].cmd = req[r].cmd
        /\ req[p].sess = req[r].sess
        /\ req[p].pc = "returned"
        /\ req[r].pc = "resolved"
        /\ obs[r].start >= 1

\* C7: reading a frame, decodable or not, leaves the read task running and
\* starts no close of the session.
UndecodableFrameDropped ==
    [][nframes' = nframes + 1 =>
          /\ cl' = cl
          /\ \A s \in Sessions :
                conn[s].read_task = "running" => conn'[s].read_task = "running"]_vars

\* async_connect has returned or raised
Done == api.pc = "idle" /\ api.ncalls > 0

\* C8: once ExtaLifeConn.async_connect has raised, the socket that it created
\* is closed: that of the attempt whose error is being handled, that of an
\* earlier attempt, and that of the last attempt when async_connect has
\* raised before the login.
FailedConnectClosesSocket ==
    \A s \in Sessions :
        (/\ conn[s].made
         /\ \/ s # api.sess
            \/ api.pc = "attempt_close"
            \/ Done /\ api.stage = "connect")
        => fds[s] = "closed"

\* C9: async_connect ends with ExtaLifeCmdError exactly when the LOGIN
\* exchange has ended with FAILURE, and with ExtaLifeConnError when the
\* discovery, the TCP connect or the wait for the login response has failed;
\* with either error no CONNECTED event has been delivered, the client is not
\* connected and the socket of the session is closed.
ConnectErrorsLeaveNothing ==
    Done =>
        /\ api.result = "CmdError" <=> api.login = FAILURE
        /\ (api.stage # "connected" /\ api.login = "none") => api.result = "ConnError"
        /\ api.result \in {"CmdError", "ConnError"} =>
              /\ \A i \in 1..Len(events) : events[i].ev # "CONNECTED"
              /\ api.connection = 0
              /\ fds[api.sess] = "closed"

\* C10: async_connect makes a second attempt only after a first one with a
\* host and with autodiscover, and makes it by discovery; when the first
\* attempt has failed to connect it makes that second attempt, and never a
\* third.
OneRetryByDiscovery ==
    /\ api.attempts <= 2
    /\ api.attempts = 2 =>
          /\ api.host # ""
          /\ api.autodiscover
          /\ conn[api.sess].host \in {"", "found"}
          /\ api.sess # 1
          /\ conn[1].read_task = "none"
    /\ (Done /\ conn[1].read_task = "none" /\ api.host # "" /\ api.autodiscover)
          => api.attempts = 2
    /\ (Done /\ ~(api.host # "" /\ api.autodiscover)) => api.attempts = 1

\* the direct attempt has failed and the attempt by discovery has connected
RetriedByDiscovery ==
    /\ Done
    /\ api.attempts = 2
    /\ api.result = "ok"
    /\ fds[1] = "closed"

(* ------------------ properties of the client's calls ------------------- *)
\* the call of the caller's that returns in this step
Returns(op) ==
    /\ api.call["caller"].pc # "off"
    /\ api'.call["caller"].pc = "off"
    /\ api'.call["caller"].op = op
    /\ api'.call["caller"].out = "returned"

\* the client is connected with the parameters of session s
ConnectedTo(a, s, c) ==
    /\ a.connection = s
    /\ a.host_prop = c[s].host
    /\ a.port_prop = c[s].port
    /\ a.username = c[s].username
    /\ a.password = c[s].password

\* the data of a response with one device that has one state
OneDeviceOneState(data) ==
    /\ Len(data) = 1
    /\ "devices" \in DOMAIN data[1]
    /\ Len(data[1].devices) = 1
    /\ Len(data[1].devices[1].state) = 1

\* get_channels for one channel type, answered SUCCESS with one device that
\* has one state, returns a list of one record
OneChannelListed(c) ==
    (Len(c.log) = 1 /\ c.log[1].status = SUCCESS /\ OneDeviceOneState(c.log[1].data))
        => Len(c.value.list) = 1

EndedOp(op) == api.call["caller"].op = op /\ api.call["caller"].out # "none"

\* C12: once DISCONNECTED with should_reconnect has started the reconnect
\* task, and until a connect succeeds, the task sleeps or attempts a
\* connect: it is never ended by the failure of an attempt.
ReconnectsUntilSuccess ==
    (api.reconnect_task /\ api.connection = 0 /\ api.call["caller"].pc # "await_task")
        => api.call["reconnect"].pc \in {"sleep", "tcp", "login"}

\* C13: after async_disconnect() has returned, and until the caller's next
\* call, no reconnect timer is pending and no reconnect attempt is under way.
NoReconnectAfterDisconnect ==
    EndedOp("disconnect")
        => api.call["reconnect"].pc \notin {"sleep", "tcp", "login", "config", "version"}

\* C14: no connect is attempted after a LOGIN FAILURE without a new request of
\* the caller's, the attempts of the reconnect task included.
NoRetryAfterLoginFailure == \A t \in Tasks : ~api.call[t].auto

\* C15: async_reconnect() never raises.
ReconnectNeverRaises == EndedOp("reconnect") => api.call["caller"].out = "returned"

\* the records of the channel types whose fetch succeeded, in their order
RECURSIVE Listed(_)
Listed(log) ==
    IF log = <<>> THEN <<>>
    ELSE IF Head(log).status = SUCCESS
    THEN TransformChannels(Head(log).data, 1, DummyChannel(Head(log).category)).channels
         \o Listed(Tail(log))
    ELSE Listed(Tail(log))

\* C16: a get_channels in which the fetch of a channel type fails (FAILURE,
\* or an error of the command) returns; every requested type has been
\* fetched and the records of the types that succeeded are returned.
FetchFailureDoesNotAbort ==
    LET c == api.call["caller"]
    IN (EndedOp("get_channels") /\ \E i \in 1..Len(c.log) : c.log[i].status # SUCCESS)
           => /\ c.out = "returned"
              /\ c.left = <<>>
              /\ c.value.list = Listed(c.log)

\* C17: execute_action and check_version return None when the exchange ends
\* with a FAILURE frame, and a fragment only when it ends with SUCCESS.
NoneOnFailure ==
    LET c == api.call["caller"]
    IN ((EndedOp("execute_action") \/ EndedOp("check_version")) /\ c.out = "returned")
           => /\ c.status = FAILURE => c.value = None
              /\ c.value # None => c.status = SUCCESS

\* the command operations of the client: async_exec_command, async_post_command
EndedCommand == EndedOp("exec_command") \/ EndedOp("post_command")

\* the client was not connected when the command was called, or the session
\* raised ExtaLifeConnError while it was executed
NotExecuted(c) == c.on = 0 \/ c.status = "ConnError"

\* C18 as it is stated: a command on a client that is not connected, or whose
\* session raises a connection error, raises a typed error.
CommandRaisesTypedError ==
    (EndedCommand /\ NotExecuted(api.call["caller"]))
        => /\ api.call["caller"].out = "raised"
           /\ api.call["caller"].err = "ConnError"

\* C18, amended: a command on a client that is not connected, or whose
\* session raises a connection error, returns None and raises nothing.
CommandReturnsNone ==
    (EndedCommand /\ NotExecuted(api.call["caller"]))
        => /\ api.call["caller"].out = "returned"
           /\ api.call["caller"].value = None

\* async_exec_command has returned None for a session that raised
\* ExtaLifeConnError
ReturnedNoneOnConnError ==
    /\ EndedOp("exec_command")
    /\ api.call["caller"].status = "ConnError"
    /\ api.call["caller"].out = "returned"
    /\ api.call["caller"].value = None

\* the sequences of q one after the other
RECURSIVE Flat(_)
Flat(q) == IF q = <<>> THEN <<>> ELSE Head(q) \o Flat(Tail(q))

\* the device-state pairs of a response's data, in the order of the data
Pairs(data_list) ==
    Flat([i \in 1..Len(data_list) |->
            Flat([j \in 1..Len(data_list[i].devices) |->
                    LET device == data_list[i].devices[j]
                    IN [n \in 1..Len(device.state) |->
                          [device |-> device, state |-> device.state[n]]]])])

\* _transform_channels has returned for the data it was given
Transformed == EndedOp("transform") /\ api.call["caller"].out = "returned"

\* the device-level fields of a pair, without the state list
DeviceFields(p) == DOMAIN p.device \ {"state"}

\* the value of a device-level field in the records of the device: the
\* device's, the type of an Exta Free device being that of its first state
\* entry moved into the Exta Free range
DeviceValue(device, k) ==
    IF k = "type" /\ IsExtaFree(device)
    THEN device.state[1].exta_free_type + ExtaFreeOffset
    ELSE device[k]

\* C19 as it is stated: on a key of both the state entry and the device, the
\* record of a device-state pair carries the value of the state entry.
StateWinsOnCollision ==
    Transformed =>
        LET list == api.call["caller"].value.list
            pairs == Pairs(api.call["caller"].given)
        IN /\ Len(list) = Len(pairs)
           /\ \A i \in 1..Len(pairs) :
                  \A k \in DOMAIN pairs[i].state \cap DeviceFields(pairs[i]) :
                      list[i].data[k] = pairs[i].state[k]

\* C19, amended: the data of the record of a device-state pair has the keys
\* of the state entry and of the device; on a key of the device, one that the
\* state entry has too included, it carries the device's value, and on a key
\* of the state entry alone the value of the state entry.
DeviceWinsOnCollision ==
    Transformed =>
        LET list == api.call["caller"].value.list
            pairs == Pairs(api.call["caller"].given)
        IN /\ Len(list) = Len(pairs)
           /\ \A i \in 1..Len(pairs) :
                  /\ DOMAIN list[i].data = DOMAIN pairs[i].state \cup DeviceFields(pairs[i])
                  /\ \A k \in DeviceFields(pairs[i]) :
                         list[i].data[k] = DeviceValue(pairs[i].device, k)
                  /\ \A k \in DOMAIN pairs[i].state \ DeviceFields(pairs[i]) :
                         list[i].data[k] = pairs[i].state[k]

\* a record was made of a state entry and a device that both have "icon",
\* with different values
MergedOnCollision ==
    /\ Transformed
    /\ \E i \in 1..Len(Pairs(api.call["caller"].given)) :
           LET p == Pairs(api.call["caller"].given)[i]
           IN /\ "icon" \in DOMAIN p.state \cap DeviceFields(p)
              /\ p.state.icon # p.device.icon
              /\ api.call["caller"].value.list[i].data.icon = p.device.icon

\* the channel of a pair as the id names it
ChannelOf(p) == IF "channel" \in DOMAIN p.state THEN <<p.state.channel>> ELSE <<>>

\* C20: _transform_channels returns one record for each device-state pair,
\* in their order; its id is the device's id, "-" and the channel number, "#"
\* in its place when the state entry has none and dummy_channel is set; its
\* data has every field of the device but "state"; two pairs that differ in
\* the device's id or in the channel have different ids; and the data given
\* is what it was before the call.
OneRecordPerPair ==
    /\ EndedOp("transform") => api.call["caller"].arg.data_list = api.call["caller"].given
    /\ Transformed =>
        LET c == api.call["caller"]
            list == c.value.list
            pairs == Pairs(c.given)
        IN /\ Len(list) = Len(pairs)
           /\ \A i \in 1..Len(pairs) :
                  /\ "channel" \in DOMAIN pairs[i].state =>
                         list[i].id = Str(pairs[i].device.id) \o "-"
                                          \o Str(pairs[i].state.channel)
                  /\ ("channel" \notin DOMAIN pairs[i].state /\ c.arg.dummy_channel) =>
                         list[i].id = Str(pairs[i].device.id) \o "-#"
                  /\ DeviceFields(pairs[i]) \subseteq DOMAIN list[i].data
                  /\ "state" \notin DOMAIN list[i].data
           /\ \A i, j \in 1..Len(pairs) :
                  (\/ pairs[i].device.id # pairs[j].device.id
                   \/ ChannelOf(pairs[i]) # ChannelOf(pairs[j]))
                      => list[i].id # list[j].id

\* records were made of device 1 with channel 11 and of device 11 with
\* channel 1, and of a state entry without channel in the dummy-channel mode
RecordsOfPairs ==
    /\ Transformed
    /\ api.call["caller"].arg.dummy_channel
    /\ LET list == api.call["caller"].value.list
       IN \E i, j, n \in 1..Len(list) :
              /\ list[i].id = "1-11"
              /\ list[j].id = "11-1"
              /\ list[n].id = "11-#"

\* C21 as it is stated: the record of a state entry that carries
\* exta_free_device = true and exta_free_type = t has the type 300 + t.
TypeRemappedByState ==
    Transformed =>
        LET list == api.call["caller"].value.list
            pairs == Pairs(api.call["caller"].given)
        IN \A i \in 1..Len(pairs) :
               (IsExtaFree(pairs[i].state) /\ "exta_free_type" \in DOMAIN pairs[i].state)
                   => /\ "type" \in DOMAIN list[i].data
                      /\ list[i].data.type = 300 + pairs[i].state.exta_free_type

\* C21, amended: the records of a device that carries exta_free_device =
\* true itself have the type 300 + t, t being the exta_free_type of the
\* first state entry of the device, whatever their own state entry has; the
\* records of any other device have the type of the device.
TypeRemappedByDevice ==
    Transformed =>
        LET list == api.call["caller"].value.list
            pairs == Pairs(api.call["caller"].given)
        IN \A i \in 1..Len(pairs) :
               /\ "type" \in DOMAIN list[i].data
               /\ list[i].data.type =
                      IF "exta_free_device" \in DOMAIN pairs[i].device
                         /\ pairs[i].device.exta_free_device = TRUE
                      THEN 300 + pairs[i].device.state[1].exta_free_type
                      ELSE pairs[i].device.type

\* an Exta Free device had two state entries of different Exta Free types,
\* and a state entry with the Exta Free mark belonged to a device without it
RemappedFromFirstState ==
    /\ Transformed
    /\ LET list == api.call["caller"].value.list
           pairs == Pairs(api.call["caller"].given)
       IN /\ \E i \in 1..Len(pairs) :
                 /\ IsExtaFree(pairs[i].device)
                 /\ "exta_free_type" \in DOMAIN pairs[i].state
                 /\ pairs[i].state.exta_free_type # pairs[i].device.state[1].exta_free_type
                 /\ list[i].data.type = 300 + pairs[i].device.state[1].exta_free_type
          /\ \E i \in 1..Len(pairs) :
                 /\ IsExtaFree(pairs[i].state)
                 /\ ~IsExtaFree(pairs[i].device)
                 /\ list[i].data.type = pairs[i].device.type

(* --------------------- properties of a session, II --------------------- *)
\* the NOTIFICATION events among the events delivered
Notes(ev) == SelectSeq(ev, LAMBDA e : e.ev = "NOTIFICATION")

\* the read task of session s reads a frame that decodes to a response of
\* the status NOTIFICATION
ReadsNotification(s) ==
    \E w \in WireFrames :
        /\ ~DecodeRaises(w)
        /\ w.status = NOTIFICATION
        /\ ReadFrame(s, w)

\* C22: a step in which a NOTIFICATION frame is read delivers one
\* NOTIFICATION event with that frame after those delivered before, and no
\* other step delivers one or takes one back.
NotificationsOnceInOrder ==
    [][ /\ \A s \in Sessions :
               ReadsNotification(s)
                   => Notes(events') = Append(Notes(events), Event(s, "NOTIFICATION", nframes'))
        /\ (~ \E s \in Sessions : ReadsNotification(s)) => Notes(events') = Notes(events)
      ]_vars

\* two NOTIFICATION frames were read and delivered one after the other
TwoNotificationsDelivered ==
    /\ Len(Notes(events)) = 2
    /\ Notes(events)[1].data = 1
    /\ Notes(events)[2].data = 2

\* C23: the merged response of an exchange that a FAILURE frame with a
\* vendor code has ended gives that code as its error_code, and the command
\* of the call as its command, whatever frames came before in the exchange.
FailureCodeCarried ==
    \A r \in Requests :
        (/\ req[r].pc = "returned"
         /\ req[r].res.status = FAILURE
         /\ Last(req[r].res.data) = "known")
            => /\ ~ErrorCode(req[r].res).raised
               /\ ErrorCode(req[r].res).code = Last(req[r].res.data)
               /\ req[r].res.command = req[r].cmd

(* ----------------------- properties of the frames ---------------------- *)
\* the bytes of a request are one JSON object, which has the command and the
\* data, and one ETX after it; those of NOOP are one space and one ETX
RequestFramed(c) ==
    LET bytes == c.value.bytes
        text == Stripped(bytes)
    IN /\ Len(bytes) > 1
       /\ \A i \in 1..Len(bytes) : bytes[i] = ETX <=> i = Len(bytes)
       /\ IF c.arg.command = NOOP
          THEN text = <<Sp>>
          ELSE /\ ~Loads(text).raised
               /\ Loads(text).val = Obj(<<Pair("command", Num(c.arg.command)),
                                          Pair("data", RequestData(c.arg.data))>>)

\* C24 as it is stated: the frame that answers with the command and the data
\* of a request decodes to that command and that data, for every command;
\* and the bytes of the request are one JSON object and ETX, or for NOOP one
\* space and ETX.
FrameRoundTrip ==
    LET c == api.call["caller"]
    IN EndedOp("codec")
           => /\ ~c.value.response.raised
              /\ c.value.response.command = c.arg.command
              /\ c.value.response.data = <<RequestData(c.arg.data)>>
              /\ RequestFramed(c)

\* C24, amended: so it is for every command but DOWNLOAD_BACKUP, whose
\* frame decodes to the command and, as data, to the whole frame without
\* its command and status: an object that has the data under "data".
FrameRoundTripButBackup ==
    LET c == api.call["caller"]
    IN EndedOp("codec")
           => /\ ~c.value.response.raised
              /\ c.value.response.command = c.arg.command
              /\ c.value.response.data =
                     IF c.arg.command = DOWNLOAD_BACKUP
                     THEN <<Obj(<<Pair("data", RequestData(c.arg.data))>>)>>
                     ELSE <<RequestData(c.arg.data)>>
              /\ RequestFramed(c)

\* a LOGIN with its credentials has gone through the encoder and the decoder
LoginFrameDecoded ==
    /\ EndedOp("codec")
    /\ api.call["caller"].arg.command = LOGIN
    /\ api.call["caller"].arg.data
           = Obj(<<Pair("login", StrV("user")), Pair("password", StrV("secret"))>>)
    /\ api.call["caller"].value.response.data = <<api.call["caller"].arg.data>>
    /\ Len(api.call["caller"].value.bytes) > 2

(* --------------------- properties of a session, III -------------------- *)
\* the wait of call r is armed again after its wait_for has run out
Rearmed(r) == req[r].pc = "cancelled" /\ req'[r].pc = "wait"

\* C25: the wait of a call is armed again only if a frame has arrived since
\* its handler was registered; with none, the call closes the connection
\* when its first wait_for runs out.
RearmedOnlyAfterFrame ==
    [][\A r \in Requests : Rearmed(r) => nframes > obs[r].start]_vars

\* the read task of session s reads the frame w, which decodes to a
\* response of the status NOTIFICATION
ReadsNotificationFrame(s, w) ==
    /\ ~DecodeRaises(w)
    /\ w.status = NOTIFICATION
    /\ ReadFrame(s, w)

Hears(r, s, w) ==
    /\ Registered(conn[s].handlers, r)
    /\ req[r].fut = "pending"
    /\ req[r].cmd = w.command

InSendRequest(q) == q.pc \in {"post", "drain", "wait", "cancelled", "resolved", "timed_out", "post_failed"}

\* C27: on a session at most one call is inside _async_send_request past the
\* command lock, and it is the holder of the lock; a call that queues on the
\* lock has no handler registered and no frame in the write; and the post of
\* the keepalive leaves the command lock alone.
OneCommandInFlight ==
    /\ [](\A s \in Sessions, r \in Requests :
              req[r].sess = s /\ InSendRequest(req[r]) => conn[s].cmd_lock = r)
    /\ [](\A r \in Requests :
              req[r].pc = "lock" => /\ ~Registered(conn[req[r].sess].handlers, r)
                                    /\ req[r].fut = "none")
    /\ [][\A s \in Sessions :
              PingPost(s) \/ PingWrite(s) => conn'[s].cmd_lock = conn[s].cmd_lock]_vars

\* a call waits for its answer, a second one queues on the command lock,
\* and the keepalive is in the drain of its frame
PingWhileCommandWaits ==
    \E s \in Sessions, r, p \in Requests :
        /\ req[r].sess = s /\ req[r].pc = "wait" /\ conn[s].cmd_lock = r
        /\ req[p].sess = s /\ req[p].pc = "lock"
        /\ conn[s].ping_task = "drain"

\* the task t of session s writes a frame in this step: it goes into the
\* drain of the frame it has written
WritesFrame(s, t) ==
    IF t = "ping_task"
    THEN conn[s].ping_task # "drain" /\ conn'[s].ping_task = "drain"
    ELSE \E r \in Requests : req[r].sess = s /\ req[r].pc # "drain" /\ req'[r].pc = "drain"

\* the task t of session s is in the drain of a frame it has written
Draining(s, t) ==
    IF t = "ping_task"
    THEN conn[s].ping_task = "drain"
    ELSE \E r \in Requests : req[r].sess = s /\ req[r].pc = "drain"

\* C28: a command or a keepalive that is in the drain of its frame is the
\* holder of the write lock of its session, so no two frames are in the write
\* at once; and a task writes its frame only when no task that asked for the
\* lock before it is still in the queue.
FramesInLockOrder ==
    /\ [](\A s \in Sessions, t \in {"ping_task", "request"} :
              Draining(s, t) => conn[s].write_lock # <<>> /\ Head(conn[s].write_lock) = t)
    /\ [][\A s \in Sessions, t \in {"ping_task", "request"} :
              WritesFrame(s, t) => /\ conn[s].write_lock = <<>> \/ Head(conn[s].write_lock) = t
                                   /\ Head(conn'[s].write_lock) = t]_vars

\* a command is in the drain of its frame and the keepalive queues behind it
\* for the write lock
PingQueuedBehindCommand ==
    \E s \in Sessions, r \in Requests :
        /\ req[r].sess = s /\ req[r].pc = "drain"
        /\ conn[s].write_lock = <<"request", "ping_task">>
        /\ conn[s].ping_task = "post"

\* C29: the list of handlers of a session never holds more than one handler,
\* and the handler of a call that has returned or raised is not in it.
OneHandlerUnregisteredAtEnd ==
    /\ \A s \in Sessions : Len(conn[s].handlers) <= 1
    /\ \A r \in Requests :
           req[r].pc \in {"returned", "raised"} => ~Registered(conn[req[r].sess].handlers, r)

(* ---------------------- properties of disconnect ----------------------- *)
\* async_disconnect() has returned, and no other call of the caller runs
DisconnectReturned == api.ndisc >= 1 /\ api.pc = "idle"

\* the loop of a task has ended: the task is done, or it has left the loop
\* by an exception of its own and is in the _async_close of its handler
LoopEnded(task) == task \in {"done", "closing"}

Delivers(e) == e.ev = "DISCONNECTED" /\ events' = Append(events, e)

\* this step is one of the _async_close(DISCONNECT) that disconnect() runs
\* on session s
DisconnectStep(s) ==
    \/ ApiDisconnect
    \/ ConnDisconnect(s)
    \/ CloseAwaitPing(s, "caller")
    \/ CloseAwaitRead(s, "caller")
    \/ CloseFinish(s, "caller")

\* C31: the DISCONNECTED event of a session carries should_reconnect = false
\* exactly when the _async_close that delivers it is the one of disconnect(),
\* and true when it is the one of the read task, of the ping task or of a
\* request; and the event of a disconnect() starts no reconnect task.
ShouldReconnectUnlessDisconnect ==
    [][\A s \in Sessions, d \in {0, 1} :
           Delivers(Event(s, "DISCONNECTED", d))
               => /\ d = 0 <=> DisconnectStep(s)
                  /\ d = 0 => /\ api'.reconnect_task = api.reconnect_task
                              /\ api'.call["reconnect"] = api.call["reconnect"]
      ]_vars

\* disconnect() has closed the connected session while the read task was in
\* its own _async_close: the event says should_reconnect = false and no
\* reconnect task is started
DisconnectWinsOverReadError ==
    /\ Last(events) = Event(1, "DISCONNECTED", 0)
    /\ cl[1]["read_task"].pc # "off"
    /\ ~api.reconnect_task
    /\ api.connection = 0

(* --------------------- properties of the ping task --------------------- *)
\* the time since the last write of session s, in tenths of a second
SinceLastWrite(s) == conn[s].now - conn[s].tcp_last_write

\* C32: the ping task leaves its loop for the post of NOOP only when the
\* keepalive has passed since the last write; while the session is open the
\* ping task is not in its sleep when the keepalive and one second more have
\* passed since the last write; and when the post has failed and the ping
\* task has ended, the socket is closed and the DISCONNECTED event with
\* should_reconnect = true has been delivered.
PingsWhenIdle ==
    /\ [][\A s \in Sessions :
              conn[s].ping_task = "sleep" /\ conn'[s].ping_task \in {"post", "drain"}
                  => SinceLastWrite(s) >= Keepalive * 10
      ]_vars
    /\ [](\A s \in Sessions :
              conn[s].socket /\ conn[s].ping_task = "sleep" /\ conn[s].now < conn[s].wake
                  => SinceLastWrite(s) < (Keepalive + 1) * 10)
    /\ [](\A s \in Sessions :
              conn[s].ping_task = "done"
                  => /\ ~conn[s].socket
                     /\ Last(events) = Event(s, "DISCONNECTED", 1))

\* the ping task has written a NOOP frame after a command was posted, the
\* keepalive after the start of the run
NoopWrittenAfterKeepalive ==
    /\ conn[1].ping_task = "drain"
    /\ conn[1].tcp_last_write = conn[1].now
    /\ conn[1].now >= Keepalive * 10
    /\ nreq >= 1

(* ------------------ properties of a session, IV ------------------------- *)
\* C33: every call of _async_send_request ends: it returns its fragments or
\* it raises ExtaLifeConnError, also when it has queued for the command lock
\* behind a call that failed.
EveryCallEnds ==
    \A r \in Requests :
        req[r].pc = "lock"
            ~> (req[r].pc = "returned" \/ (req[r].pc = "raised" /\ req[r].err = "ConnError"))

(* ------------------ properties of get_host_and_port --------------------- *)
\* the address ends with a colon and the digits of a port in 1..65535, and
\* has no other colon
PortSuffix(addr) ==
    /\ Len(RSplit(addr)) = 2
    /\ IsDigits(RSplit(addr)[2])
    /\ Number(RSplit(addr)[2]) \in 1..65535

\* C34: get_host_and_port returns a port in 1..65535: the number after the
\* colon when that is a port, and 20400 for every other address.
PortInRange ==
    EndedOp("get_host_and_port")
        => LET addr == api.call["caller"].arg
               port == api.call["caller"].value.port
           IN /\ port \in 1..65535
              /\ port = IF PortSuffix(addr) THEN Number(RSplit(addr)[2])
                        ELSE EFC01_DEFAULT_PORT

(* ---------------- properties of the close procedure, II ----------------- *)
\* the DISCONNECTED events of session s that have been delivered
Disconnections(s) ==
    SelectSeq(events, LAMBDA e : e.ev = "DISCONNECTED" /\ e.sess = s)

\* C35: whatever tasks run _async_close on a session at the same time, its
\* socket is closed once and its DISCONNECTED event is delivered once: in
\* the step that closes the socket, and in no other.
OneDisconnectedPerSocket ==
    /\ [](\A s \in Sessions :
              /\ Len(Disconnections(s)) <= 1
              /\ Len(Disconnections(s)) = 1 <=> fds[s] = "closed")
    /\ [][\A s \in Sessions :
              /\ fds[s] = "closed" => fds'[s] = "closed" /\ ~conn'[s].socket
              /\ Disconnections(s)' # Disconnections(s)
                     <=> fds[s] = "open" /\ fds'[s] = "closed"
      ]_vars

\* the event of the session has been delivered by one of three tasks that
\* ran _async_close at the same time; the two others are still in it
ThreeClosersOneEvent ==
    /\ Len(Disconnections(1)) = 1
    /\ fds[1] = "closed"
    /\ Cardinality({t \in Threads : cl[1][t].pc # "off"}) >= 2

(* ------------------ properties of the client, IV ------------------------ *)
\* session s has an open socket and a writer: its read task and its ping
\* task run
Alive(s) == conn[s].socket /\ conn[s].writer

\* C36: of the sessions that a client has created at most one has an open
\* socket with running tasks; the session of a reconnect task that was
\* cancelled during its async_connect is closed.
OneSessionAlive ==
    /\ Cardinality({s \in Sessions : Alive(s)}) <= 1
    /\ \A s \in Sessions :
           api.call["reconnect"].pc = "cancelled" /\ api.call["reconnect"].sess = s
               => ~Alive(s)

\* C37: the client is connected only to a session with an open socket that
\* has logged in, and the close of any other session leaves its connection
\* and its reconnect task as they are.
OnlyOwnSessionDisconnects ==
    /\ [](api.connection # 0
              => Alive(api.connection) /\ conn[api.connection].username # "")
    /\ [][\A s \in Sessions :
              conn[s].socket /\ ~conn'[s].socket /\ api.connection \notin {0, s}
                  => /\ api'.connection = api.connection
                     /\ api'.reconnect_task = api.reconnect_task
      ]_vars

(* ------------------ properties of the reconnect task -------------------- *)
\* the reconnect task that the client refers to has not ended
ReconnectAlive ==
    api.reconnect_task /\ api.call["reconnect"].pc \notin {"off", "done", "cancelled", "failed"}

\* C38: a reconnect task is alive only while the client is not connected: a
\* connect that succeeds cancels it and clears it before the client is
\* connected, also when the disconnect handler is still in its callback.
ReconnectOnlyWhileDisconnected ==
    /\ [](ReconnectAlive => api.connection = 0)
    /\ [][api.connection = 0 /\ api'.connection # 0 => ~api'.reconnect_task]_vars

(* ------------------ properties of a session, V -------------------------- *)
\* ExtaLifeConn.authenticated
Authenticated(c) == c.username # ""

\* C39: a session that is authenticated is connected: with its socket
\* closed it is not authenticated any more, and a login is accepted only on
\* a session that is connected and not authenticated.
AuthenticatedIsConnected ==
    /\ [](\A s \in Sessions : Authenticated(conn[s]) => conn[s].socket)
    /\ [][\A s \in Sessions :
              Authenticated(conn'[s]) /\ conn'[s].username # conn[s].username
                  => conn[s].socket /\ ~Authenticated(conn[s])
      ]_vars

(* ------------------ properties of a session, VI ------------------------- *)
\* C40: a SUCCESS or FAILURE frame of the command of a call that is read
\* while the call waits, also between the end of one wait_for and the start
\* of the next, resolves the call.
TerminalFrameResolves ==
    [][\A r \in Requests :
           Pending(r) /\ obs[r].term = 0 /\ obs'[r].term = 1
               => req'[r].fut = "result" /\ Last(req'[r].responses).status \in Terminal
      ]_vars

====
